---- MODULE Spec2Model ----
(***************************************************************************)
(* Model of the Arduino MCP bridge: the IPC server that runs inside the    *)
(* IDE backend (ipc-server.ts: connections, method routing, task manager)  *)
(* and the IPC client of the sidecar (sidecar source: correlation table,   *)
(* timeouts, framing).                                                     *)
(*                                                                         *)
(* Granularity.  Node runs one callback (macrotask) at a time and drains   *)
(* the promise continuations (microtasks) it queued before the next        *)
(* callback starts.  An action of this model is therefore one callback     *)
(* together with its continuations up to the first await on real I/O       *)
(* (coreService.compile / coreService.upload): a socket 'data' callback, a *)
(* setImmediate callback, a timer callback, the settlement of a backend    *)
(* promise.                                                                *)
(***************************************************************************)
EXTENDS Naturals, Integers, Sequences, FiniteSets, TLC

\* ------------------------------------------------------------ bounds
MaxTasks == 2
MaxConns == 2

VARIABLES
    tasks,          \* ArduinoIPCServer.tasks: Map<string, Task>
    taskCounter,    \* ArduinoIPCServer.taskCounter
    immediates,     \* setImmediate queue: task ids whose runTask is scheduled
    awaiting,       \* task ids whose body awaits coreService.compile/upload
    currentSketch,  \* ArduinoIPCServer.currentSketch
    sockets,        \* per socket slot: "open" (accepted, no close/error yet) or "closed"
    clients,        \* ArduinoIPCServer.clients: the broadcast set
    written,        \* per socket, the messages the last callback wrote to it
    acked,          \* history: task ids for which task/cancel answered {cancelled:true}
    broken,         \* the sockets whose peer is gone: socket.write on them fails
    \* --- the sidecar's IPCClient
    pendingRequests,\* IPCClient.pendingRequests: id -> the call whose resolve/reject it holds
    requestCounter, \* IPCClient.requestCounter
    timers,         \* the armed 30 s timers, in the order they were armed
    atServer,       \* requests written to the socket and not yet answered
    calls,          \* history: the request calls made, in order: [id, method]
    settled,        \* history: per call, the resolve/reject invocations on its promise
    socket,         \* IPCClient.socket: "connected" or "null"
    ipcConnected,   \* main's ipcConnected: whether connect() succeeded at startup
    lastTool,       \* history: the last tool call and how executeArduinoTool left it
    \* --- one byte stream and the framer that reads it
    side,           \* whose framer reads the stream: "server" or "client"
    whole,          \* history: the bytes of the stream
    rest,           \* the bytes not yet delivered
    buffer,         \* the `buffer` of the connection (server) / this.buffer (client)
    text,           \* history: the text appended to the buffer so far
    handed,         \* history: the lines handed on, in order
    decoded,        \* history: the values JSON.parse returned, in order
    replies,        \* history: the responses the server wrote for the stream
    \* --- the server's data callbacks and method router
    libraryService, \* whether LibraryService was injected (@optional)
    loops,          \* per socket: the data callbacks suspended in `await this.handleMessage`
    log,            \* history: per line received, its socket, what was thrown, what was written
    \* --- the life of the server: start() and stop()
    isRunning,      \* ArduinoIPCServer.isRunning
    server,         \* ArduinoIPCServer.server: the number of the net.Server, 0 for null
    servers,        \* the net.Servers created, in order: the state of each
    address,        \* who holds getSocketPath(): the number of a server, a stale file or nobody
    owner,          \* per socket slot: the server that accepted its last socket
    promises,       \* history: the start() and stop() calls and what became of their promises
    platform,       \* process.platform
    \* --- the task ids in full
    now,            \* Date.now()
    created,        \* history: the task ids task/create returned, in order
    \* --- the line buffers of several connections
    links,          \* the connections there were, in order: side, state, the server's `buffer`
    ipcBuffer,      \* IPCClient.buffer
    heard,          \* history: the lines handed on, each with the connection whose data completed it
    \* --- the tool actions and the methods they become
    asked,          \* the tool call whose request is on its way to the server, if any
    toolLog,        \* history: the tool calls made and how each one ended
    \* --- the contribution that starts and stops the server
    mcpEnabled      \* MCPContribution.mcpEnabled

serverVars == <<tasks, taskCounter, immediates, awaiting, currentSketch,
                sockets, clients, written, acked, broken>>
clientVars == <<pendingRequests, requestCounter, timers, atServer, calls, settled,
                socket, ipcConnected, lastTool>>
framerVars == <<side, whole, rest, buffer, text, handed, decoded, replies>>
routerVars == <<libraryService, loops, log>>
lifecycleVars == <<isRunning, server, servers, address, owner, promises, platform>>
idVars == <<now, created>>
bufferVars == <<links, ipcBuffer, heard>>
toolVars == <<asked, toolLog>>
contributionVars == <<mcpEnabled>>
vars == <<serverVars, clientVars, framerVars, routerVars, lifecycleVars, idVars, bufferVars,
          toolVars, contributionVars>>

\* an action of the server leaves the sidecar and the framer's stream alone
ServerOnly == UNCHANGED <<clientVars, framerVars, routerVars, lifecycleVars, idVars, bufferVars, toolVars, contributionVars>>

\* ------------------------------------------------------------ values
Conns == 1..MaxConns
Unset == "undefined"
EmptyObject == [empty |-> TRUE]
\* params of task/create: the tool, and which of fqbn and port the arguments carry
CreateParams ==
    {[tool |-> "arduino_compile", arguments |-> [fqbn |-> TRUE, port |-> FALSE]],
     [tool |-> "arduino_compile", arguments |-> [fqbn |-> FALSE, port |-> FALSE]],
     [tool |-> "arduino_upload", arguments |-> [fqbn |-> TRUE, port |-> TRUE]],
     [tool |-> "arduino_upload", arguments |-> [fqbn |-> TRUE, port |-> FALSE]],
     [tool |-> "arduino_sketch", arguments |-> [fqbn |-> FALSE, port |-> FALSE]]}
Sketches == {"null", "file:///sketch"}
ReqIds == {"req_1"}
Terminal == {"completed", "failed", "cancelled"}
TaskStatus == {"pending", "running"} \cup Terminal

\* `task_${++this.taskCounter}_${Date.now()}`
TaskIdOf(n) == <<"task", n>>
UnknownTaskId == <<"task", 0>>

NoWrites == [c \in Conns |-> <<>>]

\* { id: request.id, result }
ResultResponse(rid, result) == [id |-> rid, result |-> result]
\* { id: request.id, error: { code: -1, message } }
ErrorResponse(rid, message) == [id |-> rid, error |-> [code |-> 0 - 1, message |-> message]]

IsResponse(m) == "id" \in DOMAIN m
IsEvent(m) == "event" \in DOMAIN m

\* emitProgress: the task/progress event
ProgressEvent(taskId, progress, message) ==
    [event |-> "task/progress",
     data |-> [taskId |-> taskId, progress |-> progress, total |-> 100, message |-> message]]

\* (mutant) an emission sent to one socket of the set only
BroadcastToOne(events) ==
    [c \in Conns |-> IF c \in clients /\ \A d \in clients : c <= d THEN events ELSE <<>>]

\* (mutant) a broadcast without the try/catch around client.write: the first
\* failing write ends the loop over the set
BroadcastStopsAtFailure(events) ==
    [c \in Conns |-> IF c \in clients /\ \A d \in clients : d <= c => d \notin broken
                     THEN events ELSE <<>>]

\* broadcast: write every event of the callback to every socket of the set; a
\* write that fails is caught and logged, and the loop goes on
Broadcast(events) ==
    [c \in Conns |-> IF c \in clients /\ c \notin broken THEN events ELSE <<>>]

\* socket.write of one response on the requesting socket
WriteTo(c, m) == [d \in Conns |-> IF d = c THEN <<m>> ELSE <<>>]

\* task/get: the snapshot of a task
Snapshot(task) ==
    [status |-> task.status, result |-> task.result, error |-> task.error,
     progress |-> task.progress, progressMessage |-> task.progressMessage]

\* ------------------------------------------------------------ task manager

\* the Task object built by task/create
NewTask(taskId, tool, args) ==
    [id |-> taskId, status |-> "pending", tool |-> tool, arguments |-> args,
     result |-> Unset, error |-> Unset, progress |-> Unset, progressMessage |-> Unset]

\* this.tasks.set(taskId, task)
MapSet(map, key, value) ==
    [k \in DOMAIN map \cup {key} |-> IF k = key THEN value ELSE map[k]]

\* (mutant) task/cancel that does not look at the status
CancelTakesEffectAlways(task) == TRUE

\* task/cancel takes effect only on a pending or running task
CancelTakesEffect(task) == task.status \in {"pending", "running"}

\* runCompileTask up to its await: the events emitted and the error thrown, if any
CompilePrefix(task) ==
    IF currentSketch = "null"
    THEN [emits |-> <<<<10, "Preparing compilation...">>>>,
          error |-> "No sketch is currently open"]
    ELSE IF ~task.arguments.fqbn
    THEN [emits |-> <<<<10, "Preparing compilation...">>>>,
          error |-> "No board selected (fqbn required)"]
    ELSE [emits |-> <<<<10, "Preparing compilation...">>, <<20, "Compiling...">>>>,
          error |-> Unset]

\* runUploadTask up to its await
UploadPrefix(task) ==
    IF currentSketch = "null"
    THEN [emits |-> <<<<10, "Preparing upload...">>>>,
          error |-> "No sketch is currently open"]
    ELSE IF ~task.arguments.fqbn
    THEN [emits |-> <<<<10, "Preparing upload...">>>>,
          error |-> "No board selected (fqbn required)"]
    ELSE IF ~task.arguments.port
    THEN [emits |-> <<<<10, "Preparing upload...">>>>,
          error |-> "No port specified"]
    ELSE [emits |-> <<<<10, "Preparing upload...">>, <<20, "Compiling...">>,
                      <<50, "Uploading to board...">>>>,
          error |-> Unset]

\* the dispatch on task.tool in runTask
BodyPrefix(task) ==
    IF task.tool = "arduino_compile" THEN CompilePrefix(task)
    ELSE IF task.tool = "arduino_upload" THEN UploadPrefix(task)
    ELSE [emits |-> <<>>, error |-> "Task not supported for tool"]

\* (mutant) a body that goes on to the backend call after its validation failed
ReachesAwaitAlways(prefix) == TRUE

\* whether the body goes on to its await: no error was thrown before it
ReachesAwait(prefix) == prefix.error = Unset

\* (mutant) a runTask whose catch stores nothing on the task
AfterPrefixForgetsError(task, prefix) == [task EXCEPT !.status = "running"]

\* the catch of runTask: the task as the synchronous part of its body leaves it
AfterPrefix(task, prefix) ==
    IF prefix.error = Unset
    THEN [task EXCEPT !.status = "running"]
    ELSE [task EXCEPT !.status = "failed", !.error = prefix.error]

\* the success branch after the await: result { success: true, ... } stored,
\* status completed
AfterResolve(task) ==
    [task EXCEPT !.result = "success", !.status = "completed"]

\* (mutant) a runTask without its catch: the failure is stored nowhere
AfterRejectUncaught(task) == task

\* the failure branch after the await, through the catch of runTask
AfterReject(task) ==
    [task EXCEPT !.status = "failed",
                 !.error = IF task.tool = "arduino_compile"
                           THEN "Compilation failed" ELSE "Upload failed"]

\* (mutant) the events of a callback written last emission first
EventsNewestFirst(taskId, emits) ==
    [i \in 1..Len(emits) |->
        ProgressEvent(taskId, emits[Len(emits) + 1 - i][1], emits[Len(emits) + 1 - i][2])]

\* the task/progress events of the emissions of one callback, in their order
EventsOf(taskId, emits) ==
    [i \in 1..Len(emits) |-> ProgressEvent(taskId, emits[i][1], emits[i][2])]

\* (mutant) task/create that calls runTask itself instead of scheduling it
TaskCreateRunsInline(c, rid, params) ==
    /\ ServerOnly
    /\ sockets[c] = "open"
    /\ taskCounter < MaxTasks
    /\ LET taskId == TaskIdOf(taskCounter + 1)
           task == NewTask(taskId, params.tool, params.arguments)
           prefix == BodyPrefix(task)
       IN /\ taskCounter' = taskCounter + 1
          /\ tasks' = MapSet(tasks, taskId, AfterPrefix(task, prefix))
          /\ awaiting' = IF ReachesAwait(prefix) THEN awaiting \cup {taskId} ELSE awaiting
          /\ written' = [d \in Conns |->
                Broadcast(EventsOf(taskId, <<<<0, "Starting...">>>> \o prefix.emits))[d]
                \o WriteTo(c, ResultResponse(rid, [taskId |-> taskId]))[d]]
    /\ UNCHANGED <<immediates, currentSketch, sockets, clients, acked, broken>>

\* handleMessage + handleTask, case 'task/create'
TaskCreate(c, rid, params) ==
    /\ ServerOnly
    /\ sockets[c] = "open"
    /\ taskCounter < MaxTasks
    /\ LET taskId == TaskIdOf(taskCounter + 1)
       IN /\ taskCounter' = taskCounter + 1
          /\ tasks' = MapSet(tasks, taskId, NewTask(taskId, params.tool, params.arguments))
          /\ immediates' = Append(immediates, taskId)
          /\ written' = WriteTo(c, ResultResponse(rid, [taskId |-> taskId]))
    /\ UNCHANGED <<awaiting, currentSketch, sockets, clients, acked, broken>>

\* (mutant) a task/get that forgets a task once its terminal snapshot was read
TaskGetConsumes(c, rid, taskId) ==
    /\ ServerOnly
    /\ sockets[c] = "open"
    /\ written' = WriteTo(c, IF taskId \in DOMAIN tasks
                             THEN ResultResponse(rid, Snapshot(tasks[taskId]))
                             ELSE ErrorResponse(rid, "Task not found"))
    /\ tasks' = IF taskId \in DOMAIN tasks /\ tasks[taskId].status \in Terminal
                THEN [k \in DOMAIN tasks \ {taskId} |-> tasks[k]]
                ELSE tasks
    /\ UNCHANGED <<taskCounter, immediates, awaiting, currentSketch,
                   sockets, clients, acked, broken>>

\* handleMessage + handleTask, case 'task/get'
TaskGet(c, rid, taskId) ==
    /\ ServerOnly
    /\ sockets[c] = "open"
    /\ written' = WriteTo(c, IF taskId \in DOMAIN tasks
                             THEN ResultResponse(rid, Snapshot(tasks[taskId]))
                             ELSE ErrorResponse(rid, "Task not found"))
    /\ UNCHANGED <<tasks, taskCounter, immediates, awaiting, currentSketch,
                   sockets, clients, acked, broken>>

\* (mutant) a task/cancel that answers an id it does not find as task/get does
TaskCancelRejectsUnknown(c, rid, taskId) ==
    /\ ServerOnly
    /\ sockets[c] = "open"
    /\ IF taskId \in DOMAIN tasks /\ CancelTakesEffect(tasks[taskId])
       THEN /\ tasks' = [tasks EXCEPT ![taskId].status = "cancelled",
                                      ![taskId].error = "Cancelled by user"]
            /\ acked' = acked \cup {taskId}
            /\ written' = WriteTo(c, ResultResponse(rid, [cancelled |-> TRUE]))
       ELSE /\ UNCHANGED <<tasks, acked>>
            /\ written' = WriteTo(c, IF taskId \in DOMAIN tasks
                                     THEN ResultResponse(rid, [cancelled |-> FALSE])
                                     ELSE ErrorResponse(rid, "Task not found"))
    /\ UNCHANGED <<taskCounter, immediates, awaiting, currentSketch, sockets, clients,
                   broken>>

\* handleMessage + handleTask, case 'task/cancel'
TaskCancel(c, rid, taskId) ==
    /\ ServerOnly
    /\ sockets[c] = "open"
    /\ IF taskId \in DOMAIN tasks /\ CancelTakesEffect(tasks[taskId])
       THEN /\ tasks' = [tasks EXCEPT ![taskId].status = "cancelled",
                                      ![taskId].error = "Cancelled by user"]
            /\ acked' = acked \cup {taskId}
            /\ written' = WriteTo(c, ResultResponse(rid, [cancelled |-> TRUE]))
       ELSE /\ UNCHANGED <<tasks, acked>>
            /\ written' = WriteTo(c, ResultResponse(rid, [cancelled |-> FALSE]))
    /\ UNCHANGED <<taskCounter, immediates, awaiting, currentSketch, sockets, clients,
                   broken>>

\* the setImmediate callback: runTask up to the await of the backend call
RunTask(taskId) ==
    /\ ServerOnly
    /\ immediates # <<>>
    /\ taskId = Head(immediates)
    /\ immediates' = Tail(immediates)
    /\ IF taskId \in DOMAIN tasks
       THEN LET prefix == BodyPrefix(tasks[taskId])
            IN /\ tasks' = [tasks EXCEPT ![taskId] = AfterPrefix(@, prefix)]
               /\ awaiting' = IF ReachesAwait(prefix)
                              THEN awaiting \cup {taskId} ELSE awaiting
               /\ written' = Broadcast(EventsOf(taskId, <<<<0, "Starting...">>>> \o prefix.emits))
       ELSE UNCHANGED <<tasks, awaiting>> /\ written' = NoWrites
    /\ UNCHANGED <<taskCounter, currentSketch, sockets, clients, acked, broken>>

\* coreService.compile / upload resolves: the rest of the try block
BackendResolve(taskId) ==
    /\ ServerOnly
    /\ taskId \in awaiting
    /\ awaiting' = awaiting \ {taskId}
    /\ tasks' = [tasks EXCEPT ![taskId] = AfterResolve(@)]
    /\ written' = Broadcast(EventsOf(taskId,
                     <<<<100, IF tasks[taskId].tool = "arduino_compile"
                              THEN "Compilation complete" ELSE "Upload complete">>>>))
    /\ UNCHANGED <<taskCounter, immediates, currentSketch, sockets, clients, acked, broken>>

\* (mutant) a failure of the backend call that is also reported to the sockets
BackendRejectReports(taskId) ==
    /\ ServerOnly
    /\ taskId \in awaiting
    /\ awaiting' = awaiting \ {taskId}
    /\ tasks' = [tasks EXCEPT ![taskId] = AfterReject(@)]
    /\ written' = Broadcast(<<ErrorResponse("req_1", AfterReject(tasks[taskId]).error)>>)
    /\ UNCHANGED <<taskCounter, immediates, currentSketch, sockets, clients, acked, broken>>

\* coreService.compile / upload rejects: rethrown, caught by runTask
BackendReject(taskId) ==
    /\ ServerOnly
    /\ taskId \in awaiting
    /\ awaiting' = awaiting \ {taskId}
    /\ tasks' = [tasks EXCEPT ![taskId] = AfterReject(@)]
    /\ written' = NoWrites
    /\ UNCHANGED <<taskCounter, immediates, currentSketch, sockets, clients, acked, broken>>

\* ------------------------------------------------------------ connections

\* net.createServer callback: handleClientConnection
Accept(c) ==
    /\ ServerOnly
    /\ sockets[c] = "closed"
    /\ sockets' = [sockets EXCEPT ![c] = "open"]
    /\ clients' = clients \cup {c}
    /\ written' = NoWrites
    /\ UNCHANGED <<tasks, taskCounter, immediates, awaiting, currentSketch, acked, broken>>

\* (mutant) a close callback that cancels the tasks that have not ended
SocketCloseCancelsTasks(c) ==
    /\ ServerOnly
    /\ sockets[c] = "open"
    /\ sockets' = [sockets EXCEPT ![c] = "closed"]
    /\ clients' = clients \ {c}
    /\ broken' = broken \ {c}
    /\ written' = NoWrites
    /\ tasks' = [taskId \in DOMAIN tasks |->
                    IF tasks[taskId].status \in {"pending", "running"}
                    THEN [tasks[taskId] EXCEPT !.status = "cancelled"]
                    ELSE tasks[taskId]]
    /\ UNCHANGED <<taskCounter, immediates, awaiting, currentSketch, acked>>

\* socket 'close' / 'error' callback
SocketClose(c) ==
    /\ ServerOnly
    /\ sockets[c] = "open"
    /\ sockets' = [sockets EXCEPT ![c] = "closed"]
    /\ clients' = clients \ {c}
    /\ broken' = broken \ {c}
    /\ written' = NoWrites
    /\ UNCHANGED <<tasks, taskCounter, immediates, awaiting, currentSketch, acked>>

\* the peer of a socket goes away (a broken pipe): from now on client.write on the
\* socket fails, and no data arrives on it; its 'error' / 'close' callback is
\* still to come
PipeBreaks(c) ==
    /\ ServerOnly
    /\ sockets[c] = "open"
    /\ c \notin broken
    /\ broken' = broken \cup {c}
    /\ written' = NoWrites
    /\ UNCHANGED <<tasks, taskCounter, immediates, awaiting, currentSketch, sockets,
                   clients, acked>>

\* a Sketch object is named by its uri; Reloaded is another object with the uri
\* and the name of "file:///sketch" (the same sketch with a file added to it)
Reloaded == "file:///sketch (reloaded)"

\* (mutant) a comparison of the Sketch objects in the place of their uris
UriOfObject(sketch) == sketch

\* sketch?.uri
UriOf(sketch) ==
    IF sketch = "null" THEN Unset
    ELSE IF sketch = Reloaded THEN "file:///sketch"
    ELSE sketch

\* setCurrentSketch: roots/changed is broadcast when the uri changes
SetCurrentSketch(sketch) ==
    /\ ServerOnly
    /\ currentSketch' = sketch
    /\ written' = IF UriOf(currentSketch) # UriOf(sketch)
                  THEN Broadcast(<<[event |-> "roots/changed", data |-> EmptyObject]>>)
                  ELSE NoWrites
    /\ UNCHANGED <<tasks, taskCounter, immediates, awaiting, sockets, clients, acked, broken>>

\* ------------------------------------------------------------ specification

ServerInit ==
    /\ tasks = <<>>
    /\ taskCounter = 0
    /\ immediates = <<>>
    /\ awaiting = {}
    /\ currentSketch = "null"
    /\ sockets = [c \in Conns |-> "closed"]
    /\ clients = {}
    /\ written = NoWrites
    /\ acked = {}
    /\ broken = {}

NoTool == [tool |-> "none", outcome |-> "none"]

\* the sidecar after main's connect() and before its first tool call: connected, or
\* not, with the socket set back to null by the 'close' that follows the error
ClientStarted(connected) ==
    /\ pendingRequests = <<>>
    /\ requestCounter = 0
    /\ timers = <<>>
    /\ atServer = {}
    /\ calls = <<>>
    /\ settled = <<>>
    /\ socket = IF connected THEN "connected" ELSE "null"
    /\ ipcConnected = connected
    /\ lastTool = NoTool

\* the sidecar that found no IDE
ClientIdle == ClientStarted(FALSE)

\* no stream
FramerIdle ==
    /\ side = "none"
    /\ whole = <<>>
    /\ rest = <<>>
    /\ buffer = <<>>
    /\ text = <<>>
    /\ handed = <<>>
    /\ decoded = <<>>
    /\ replies = <<>>

\* no line received
RouterIdle ==
    /\ libraryService = TRUE
    /\ loops = [c \in Conns |-> {}]
    /\ log = <<>>

NoServer == 0

\* start() was never called
LifecycleIdle ==
    /\ isRunning = FALSE
    /\ server = NoServer
    /\ servers = <<>>
    /\ address = NoServer
    /\ owner = [c \in Conns |-> NoServer]
    /\ promises = <<>>
    /\ platform = "linux"

\* no connection yet
BufferIdle ==
    /\ links = <<>>
    /\ ipcBuffer = <<>>
    /\ heard = <<>>

\* no request of a tool call on its way
NoCall == [tool |-> "none", action |-> "none", method |-> <<>>]

\* no tool called yet
ToolIdle ==
    /\ asked = NoCall
    /\ toolLog = <<>>

\* `private mcpEnabled = true`
ContributionIdle == mcpEnabled = TRUE

\* the first reading of the clock
FirstTick == 9

\* no task id returned
IdIdle ==
    /\ now = FirstTick
    /\ created = <<>>

Init == ServerInit /\ ClientIdle /\ FramerIdle /\ RouterIdle /\ LifecycleIdle /\ IdIdle /\ BufferIdle /\ ToolIdle /\ ContributionIdle

TaskIds == {TaskIdOf(n) : n \in 1..MaxTasks}

Next ==
    \/ \E c \in Conns, rid \in ReqIds, params \in CreateParams :
          TaskCreate(c, rid, params)
    \/ \E c \in Conns, rid \in ReqIds, taskId \in TaskIds \cup {UnknownTaskId} :
          TaskGet(c, rid, taskId)
    \/ \E c \in Conns, rid \in ReqIds, taskId \in TaskIds \cup {UnknownTaskId} :
          TaskCancel(c, rid, taskId)
    \/ \E taskId \in TaskIds : RunTask(taskId)
    \/ \E taskId \in TaskIds : BackendResolve(taskId)
    \/ \E taskId \in TaskIds : BackendReject(taskId)
    \/ \E c \in Conns : Accept(c)
    \/ \E c \in Conns : SocketClose(c)
    \/ \E sketch \in Sketches : SetCurrentSketch(sketch)

Spec == Init /\ [][Next]_vars

LiveSpec ==
    /\ Spec
    /\ WF_vars(\E taskId \in TaskIds : RunTask(taskId))
    /\ \A taskId \in TaskIds : WF_vars(BackendResolve(taskId) \/ BackendReject(taskId))

\* the server with sockets whose peer goes away: requests arrive only on the others
BroadcastNext ==
    \/ \E c \in Conns \ broken, rid \in ReqIds, params \in CreateParams :
          TaskCreate(c, rid, params)
    \/ \E c \in Conns \ broken, rid \in ReqIds, taskId \in TaskIds \cup {UnknownTaskId} :
          TaskGet(c, rid, taskId)
    \/ \E c \in Conns \ broken, rid \in ReqIds, taskId \in TaskIds \cup {UnknownTaskId} :
          TaskCancel(c, rid, taskId)
    \/ \E taskId \in TaskIds : RunTask(taskId)
    \/ \E taskId \in TaskIds : BackendResolve(taskId)
    \/ \E taskId \in TaskIds : BackendReject(taskId)
    \/ \E c \in Conns : Accept(c)
    \/ \E c \in Conns : SocketClose(c)
    \/ \E c \in Conns : PipeBreaks(c)
    \/ \E sketch \in Sketches : SetCurrentSketch(sketch)

BroadcastSpec == Init /\ [][BroadcastNext]_vars

\* ------------------------------------------------------------ claims: tasks

Range(seq) == {seq[i] : i \in 1..Len(seq)}
Finished == {"completed", "failed"}
CancelFalse(rid) == ResultResponse(rid, [cancelled |-> FALSE])
CancelTrue(rid) == ResultResponse(rid, [cancelled |-> TRUE])
AllWritten == UNION {Range(written[c]) : c \in Conns}
\* the tasks of which the last callback wrote a task/create response
JustCreated ==
    {m.result.taskId : m \in {w \in AllWritten :
        IsResponse(w) /\ "result" \in DOMAIN w /\ "taskId" \in DOMAIN w.result}}
ProgressOf(taskId) ==
    {m \in AllWritten : IsEvent(m) /\ m.event = "task/progress" /\ m.data.taskId = taskId}

\* C1: once task/cancel has answered {cancelled:true} for a task, every later
\* task/get of it reports status 'cancelled', whatever the body does afterwards.
C1_CancelledStaysCancelled ==
    \A taskId \in acked : Snapshot(tasks[taskId]).status = "cancelled"

\* C2: task/cancel on a task that is already 'completed' or 'failed' answers
\* {cancelled:false} and leaves status, result and error of the task as they were.
C2_LateCancelIsNoOp ==
    [][\A c \in Conns, rid \in ReqIds, taskId \in DOMAIN tasks :
          (TaskCancel(c, rid, taskId) /\ tasks[taskId].status \in Finished)
          => /\ written'[c] = <<CancelFalse(rid)>>
             /\ tasks'[taskId] = tasks[taskId]]_vars

C2_Witness ==
    /\ \E c \in Conns, rid \in ReqIds : written[c] = <<CancelFalse(rid)>>
    /\ \E taskId \in DOMAIN tasks : tasks[taskId].status \in Finished
    /\ acked = {}

\* C3: 'completed' and 'failed' are terminal: no later step changes the status,
\* the result or the error of such a task, so task/get keeps returning the same snapshot.
C3_FinishedIsTerminal ==
    [][\A taskId \in DOMAIN tasks :
          tasks[taskId].status \in Finished
          => /\ taskId \in DOMAIN tasks'
             /\ Snapshot(tasks'[taskId]) = Snapshot(tasks[taskId])]_vars

C3_Witness ==
    /\ taskCounter = MaxTasks
    /\ \E taskId \in DOMAIN tasks :
          /\ tasks[taskId].status = "completed"
          /\ \E other \in DOMAIN tasks : other # taskId /\ tasks[other].status = "failed"
    /\ \E c \in Conns, rid \in ReqIds : written[c] = <<CancelFalse(rid)>>

\* C4: the response that carries the taskId is written while the task is still
\* 'pending': its run is only scheduled, and no progress event of it has been written.
C4_CreateAnswersBeforeRun ==
    \A taskId \in JustCreated :
        /\ taskId \in DOMAIN tasks
        /\ tasks[taskId].status = "pending"
        /\ taskId \in Range(immediates)
        /\ taskId \notin awaiting
        /\ ProgressOf(taskId) = {}

C4_Witness ==
    \E c \in Conns, rid \in ReqIds :
        /\ written[c] = <<ResultResponse(rid, [taskId |-> TaskIdOf(MaxTasks)])>>
        /\ tasks[TaskIdOf(MaxTasks)].tool = "arduino_upload"

\* C5: under fair scheduling of runTask and a backend call that eventually settles,
\* every created task eventually has status 'completed', 'failed' or 'cancelled'.
C5_EveryTaskEnds ==
    \A taskId \in TaskIds :
        (taskId \in DOMAIN tasks)
        ~> (taskId \in DOMAIN tasks /\ tasks[taskId].status \in Terminal
            /\ taskId \notin Range(immediates) /\ taskId \notin awaiting)

C5_Witness ==
    \E taskId \in DOMAIN tasks :
        /\ tasks[taskId].status = "completed"
        /\ taskId \notin Range(immediates) /\ taskId \notin awaiting

\* C6: for every task, result is set only when the status is 'completed' and error
\* only when the task did not complete; a 'failed' task has an error and no result.
C6_ResultAndErrorMatchStatus ==
    \A taskId \in DOMAIN tasks :
        LET task == tasks[taskId]
        IN /\ task.result # Unset => task.status = "completed"
           /\ task.error # Unset => task.status # "completed"
           /\ task.status = "completed" => task.result # Unset
           /\ task.status = "failed" => task.error # Unset /\ task.result = Unset

\* ------------------------------------------------------------ claims: broadcast

\* the events each action broadcasts in a step
Starting == <<0, "Starting...">>
RootsChanged == [event |-> "roots/changed", data |-> EmptyObject]
Healthy == clients \ broken

\* C14: a failing write does not stop a broadcast: every other socket of the set
\* is written all the events of the step, and the caller goes on as if no write
\* had failed (the task body reaches its await or its own failure, setCurrentSketch
\* returns).
C14_BroadcastIsolatesFailures ==
    [][\A c \in Healthy :
          /\ \A taskId \in DOMAIN tasks :
                RunTask(taskId)
                => /\ written'[c] =
                        EventsOf(taskId, <<Starting>> \o BodyPrefix(tasks[taskId]).emits)
                   /\ tasks'[taskId] = AfterPrefix(tasks[taskId], BodyPrefix(tasks[taskId]))
          /\ \A taskId \in awaiting :
                BackendResolve(taskId)
                => /\ Len(written'[c]) = 1
                   /\ written'[c][1].data.taskId = taskId
                   /\ written'[c][1].data.progress = 100
                   /\ tasks'[taskId].status = "completed"
          /\ \A sketch \in Sketches :
                (SetCurrentSketch(sketch) /\ sketch # currentSketch)
                => written'[c] = <<RootsChanged>> /\ currentSketch' = sketch]_vars

C14_Witness ==
    \E c \in clients, d \in clients, taskId \in awaiting :
        /\ c \in broken /\ d \notin broken
        /\ written[c] = <<>>
        /\ Len(written[d]) = 3 /\ written[d][3] = ProgressEvent(taskId, 20, "Compiling...")
        /\ tasks[taskId].status = "running"

\* C15: a socket on which a write of a broadcast fails is no longer in the
\* broadcast set after that broadcast.
C15_FailedWriteDropsConnection ==
    [][\A c \in clients \cap broken :
          (\/ \E taskId \in DOMAIN tasks : RunTask(taskId)
           \/ \E taskId \in awaiting : BackendResolve(taskId)
           \/ \E sketch \in Sketches : SetCurrentSketch(sketch) /\ sketch # currentSketch)
          => c \notin clients']_vars

\* C16: the close or error of a socket changes no task: the table, the scheduled
\* runs and the awaited backend calls are as before, so the tasks go on, and
\* task/get on any socket answers with the snapshot of the task.
C16_CloseChangesNoTask ==
    [][/\ \A c \in Conns :
             SocketClose(c)
             => /\ tasks' = tasks /\ taskCounter' = taskCounter
                /\ immediates' = immediates /\ awaiting' = awaiting
       /\ \A c \in Conns, rid \in ReqIds, taskId \in DOMAIN tasks :
             TaskGet(c, rid, taskId)
             => written'[c] = <<ResultResponse(rid, Snapshot(tasks[taskId]))>>]_vars

\* every socket there ever was is closed, and the tasks go on
C16_Witness ==
    /\ \A c \in Conns : sockets[c] = "closed"
    /\ clients = {}
    /\ \E taskId \in awaiting : tasks[taskId].status = "running"
    /\ \E taskId \in Range(immediates) : tasks[taskId].status = "pending"

SnapshotFields == {"status", "result", "error", "progress", "progressMessage"}

\* C22: task/get for an id that is not in the table is answered with the error
\* 'Task not found' and no result; for an id of the table it is answered with a
\* result of exactly the fields status, result, error, progress and
\* progressMessage, each the value of the task's field; either way the table,
\* every task in it, the counter and the scheduled and awaited runs are unchanged.
C22_TaskGetReadsOnly ==
    [][\A c \in Conns, rid \in ReqIds, taskId \in TaskIds \cup {UnknownTaskId} :
          TaskGet(c, rid, taskId)
          => /\ tasks' = tasks /\ taskCounter' = taskCounter
             /\ immediates' = immediates /\ awaiting' = awaiting
             /\ Len(written'[c]) = 1
             /\ written'[c][1].id = rid
             /\ IF taskId \in DOMAIN tasks
                THEN /\ DOMAIN written'[c][1] = {"id", "result"}
                     /\ DOMAIN written'[c][1].result = SnapshotFields
                     /\ \A f \in SnapshotFields :
                           written'[c][1].result[f] = tasks[taskId][f]
                ELSE /\ DOMAIN written'[c][1] = {"id", "error"}
                     /\ written'[c][1].error.message = "Task not found"]_vars

\* a task/get has answered with the snapshot of a task that failed
C22_Witness ==
    \E c \in Conns, taskId \in DOMAIN tasks :
        /\ tasks[taskId].status = "failed"
        /\ tasks[taskId].error = "Compilation failed"
        /\ written[c] = <<ResultResponse("req_1", Snapshot(tasks[taskId]))>>
        /\ Cardinality(DOMAIN tasks) = MaxTasks

\* the emissions of the callback runTask: 'Starting...' and those of the body
RunEmits(task) == <<<<0, "Starting...">>>> \o BodyPrefix(task).emits

\* the task carries percentage and message of the emission
Reports(task, emission) ==
    /\ task.progress # Unset
    /\ task.progressMessage # Unset
    /\ task.progress = emission[1]
    /\ task.progressMessage = emission[2]

\* C23: after a callback that emitted progress for a task, the task's progress and
\* progressMessage, which task/get returns, are the percentage and the message of
\* the last emission of that callback; every other step leaves them as they are.
C23_GetReportsLastEmission ==
    [][\A taskId \in DOMAIN tasks :
          IF RunTask(taskId)
          THEN Reports(tasks'[taskId], RunEmits(tasks[taskId])[Len(RunEmits(tasks[taskId]))])
          ELSE IF BackendResolve(taskId)
          THEN Reports(tasks'[taskId],
                       <<100, IF tasks[taskId].tool = "arduino_compile"
                              THEN "Compilation complete" ELSE "Upload complete">>)
          ELSE /\ tasks'[taskId].progress = tasks[taskId].progress
               /\ tasks'[taskId].progressMessage = tasks[taskId].progressMessage]_vars

\* the percentages of the task/progress events of a task among the messages
PercentsOf(messages, taskId) ==
    LET ofTask(m) == IsEvent(m) /\ m.event = "task/progress" /\ m.data.taskId = taskId
        events == SelectSeq(messages, ofTask)
    IN [i \in 1..Len(events) |-> events[i].data.progress]

\* the percentages emitted by the callback runTask, in the order of the body
RunPercents(task) == [i \in 1..Len(RunEmits(task)) |-> RunEmits(task)[i][1]]

\* C24: on every socket the task/progress events of a task come in the order the
\* body emits them.  They are written by the callback that runs the task, which
\* sets it 'running': first 0, then the percentages of the body, not decreasing;
\* and by the callback that completes it: 100, after all of those.  Every
\* percentage is in 0..100, and no event of a task is written before it is run.
C24_ProgressInOrder ==
    [][\A c \in Conns, taskId \in TaskIds :
          LET percents == PercentsOf(written'[c], taskId)
          IN \/ percents = <<>>
             \/ /\ RunTask(taskId)
                /\ tasks[taskId].status # "running"
                /\ percents = RunPercents(tasks[taskId])
                /\ percents[1] = 0
                /\ \A i \in 1..Len(percents) :
                      /\ percents[i] \in 0..100
                      /\ \A j \in 1..i : percents[j] <= percents[i]
             \/ /\ BackendResolve(taskId)
                /\ tasks[taskId].status = "running" \/ taskId \in acked
                /\ percents = <<100>>
                /\ \A i \in 1..Len(RunPercents(tasks[taskId])) :
                      RunPercents(tasks[taskId])[i] <= 100]_vars

\* the events of one task are written while another task is between its events
C24_Witness ==
    \E c \in clients, first \in awaiting, second \in DOMAIN tasks :
        /\ first # second
        /\ tasks[first].status = "running"
        /\ PercentsOf(written[c], second) = <<0, 10, 20, 50>>
        /\ PercentsOf(written[c], first) = <<>>

\* the emissions of the callback in which the backend call of a task resolves
ResolveEmits(task) ==
    <<<<100, IF task.tool = "arduino_compile"
             THEN "Compilation complete" ELSE "Upload complete">>>>

\* the messages are the events { taskId, progress, total: 100, message } of the emissions
AreEventsOf(messages, taskId, emits) ==
    /\ Len(messages) = Len(emits)
    /\ \A i \in 1..Len(emits) :
          /\ DOMAIN messages[i] = {"event", "data"}
          /\ messages[i].event = "task/progress"
          /\ DOMAIN messages[i].data = {"taskId", "progress", "total", "message"}
          /\ messages[i].data.taskId = taskId
          /\ messages[i].data.progress = emits[i][1]
          /\ messages[i].data.total = 100
          /\ messages[i].data.message = emits[i][2]

\* C25: every emission of a callback is written, as the event { taskId, progress,
\* total: 100, message }, to every socket that is in the broadcast set when the
\* callback runs, whichever socket created the task and whenever the socket was
\* accepted, and to no other socket.
C25_EmissionReachesWholeSet ==
    [][\A taskId \in DOMAIN tasks :
          /\ RunTask(taskId)
             => \A c \in Conns :
                   AreEventsOf(written'[c], taskId,
                               IF c \in clients THEN RunEmits(tasks[taskId]) ELSE <<>>)
          /\ BackendResolve(taskId)
             => \A c \in Conns :
                   AreEventsOf(written'[c], taskId,
                               IF c \in clients THEN ResolveEmits(tasks[taskId]) ELSE <<>>)]_vars

\* every socket there is was written the events of the run of the last task
\* created, of which one socket at most sent the task/create
C25_Witness ==
    /\ clients = Conns
    /\ taskCounter = MaxTasks
    /\ \A c \in Conns :
          AreEventsOf(written[c], TaskIdOf(MaxTasks),
                      <<<<0, "Starting...">>, <<10, "Preparing upload...">>,
                        <<20, "Compiling...">>, <<50, "Uploading to board...">>>>)

\* the messages are task/progress events only: no response, no error
OnlyProgress(messages) ==
    \A i \in 1..Len(messages) :
        ~IsResponse(messages[i]) /\ "error" \notin DOMAIN messages[i]
        /\ messages[i].event = "task/progress"

\* C28: a failure of a task body, before its await or of the awaited backend call,
\* ends in the catch of runTask: the task is 'failed' with the failure's message
\* as its error, which the snapshot of task/get carries; the callback writes no
\* response and no error to any socket, whether or not a socket is open.
C28_TaskFailureStaysOnTask ==
    [][\A taskId \in DOMAIN tasks :
          /\ (RunTask(taskId) /\ BodyPrefix(tasks[taskId]).error # Unset)
             => /\ Snapshot(tasks'[taskId]).status = "failed"
                /\ Snapshot(tasks'[taskId]).error = BodyPrefix(tasks[taskId]).error
                /\ \A c \in Conns : OnlyProgress(written'[c])
          /\ BackendReject(taskId)
             => /\ Snapshot(tasks'[taskId]).status = "failed"
                /\ Snapshot(tasks'[taskId]).error \in {"Compilation failed", "Upload failed"}
                /\ \A c \in Conns : written'[c] = <<>>]_vars

\* with every socket closed, one task failed before its await and one in its
\* backend call
C28_Witness ==
    /\ \A c \in Conns : sockets[c] = "closed"
    /\ written = NoWrites
    /\ \E first \in DOMAIN tasks, second \in DOMAIN tasks :
          /\ tasks[first].status = "failed" /\ tasks[first].error = "No port specified"
          /\ tasks[second].status = "failed" /\ tasks[second].error = "Upload failed"

\* C33: a task that was cancelled while pending never starts: when its scheduled
\* runTask comes, the task stays 'cancelled', no task/progress event is written to
\* any socket, and the body does not go on to the backend compile or upload.
C33_CancelledPendingNeverStarts ==
    [][\A taskId \in DOMAIN tasks :
          (RunTask(taskId) /\ tasks[taskId].status = "cancelled")
          => /\ tasks'[taskId].status = "cancelled"
             /\ written' = NoWrites
             /\ taskId \notin awaiting']_vars

\* C37: task/cancel for an id that is not in the table is answered with the
\* result {cancelled: false}, on the socket of the request and on no other; the
\* table and every task in it are as before, and no cancellation is acknowledged.
C37_CancelOfUnknownIdIsRefused ==
    [][\A c \in Conns, rid \in ReqIds, taskId \in TaskIds \cup {UnknownTaskId} :
          (TaskCancel(c, rid, taskId) /\ taskId \notin DOMAIN tasks)
          => /\ written' = WriteTo(c, ResultResponse(rid, [cancelled |-> FALSE]))
             /\ tasks' = tasks
             /\ UNCHANGED <<taskCounter, immediates, awaiting, acked>>]_vars

\* {cancelled: false} was the answer while every task of the table could have
\* been cancelled: the id asked for was none of theirs
C37_Witness ==
    /\ \E c \in Conns, rid \in ReqIds :
          written = WriteTo(c, ResultResponse(rid, [cancelled |-> FALSE]))
    /\ Cardinality(DOMAIN tasks) = MaxTasks
    /\ \A taskId \in DOMAIN tasks : tasks[taskId].status \in {"pending", "running"}
    /\ acked = {}

\* the reasons for which a task cannot be run as the server stands
Reasons(task) ==
    IF task.tool \notin {"arduino_compile", "arduino_upload"}
    THEN {"Task not supported for tool"}
    ELSE (IF currentSketch = "null" THEN {"No sketch is currently open"} ELSE {})
         \cup (IF task.arguments.fqbn THEN {} ELSE {"No board selected (fqbn required)"})
         \cup (IF task.tool = "arduino_upload" /\ ~task.arguments.port
               THEN {"No port specified"} ELSE {})

MaxRequests == 3

Methods == {"task/get", "sketch/list", "context/getState"}

\* the tools, and the request executeArduinoTool makes for each (arduino_sketch
\* with action 'list', arduino_task_status with a task_id)
Tools == {"arduino_context", "arduino_task_status", "arduino_sketch"}
MethodOf(tool) ==
    IF tool = "arduino_context" THEN "context/getState"
    ELSE IF tool = "arduino_task_status" THEN "task/get"
    ELSE "sketch/list"

\* `req_${++this.requestCounter}`
ReqIdOf(n) == <<"req", n>>

\* what the server answers to a request: handleMessage echoes request.id, and the
\* result or the error message is the one of that request
AnswerTo(request, ok) ==
    IF ok
    THEN ResultResponse(request.id, <<"result of", request.method, request.id>>)
    ELSE ErrorResponse(request.id, <<"failure of", request.method, request.id>>)

\* pending.resolve(response.result) / pending.reject(new Error(response.error.message))
OutcomeOf(response) ==
    IF "error" \in DOMAIN response
    THEN [kind |-> "reject", value |-> response.error.message]
    ELSE [kind |-> "resolve", value |-> response.result]

\* reject(new Error('IPC request timeout'))
TimeoutOutcome == [kind |-> "reject", value |-> <<"IPC request timeout">>]

\* (mutant) a table read that takes the oldest entry whatever the id
PendingGetOldest(table, id) ==
    {table[k] : k \in {j \in DOMAIN table : \A i \in DOMAIN table : j[2] <= i[2]}}

\* this.pendingRequests.get(response.id): the entry, or none (the empty set)
PendingGet(table, id) == {table[k] : k \in DOMAIN table \cap {id}}

\* (mutant) a timer callback that rejects without looking at the table
TimerFindsEntryAlways(table, id) == TRUE

\* this.pendingRequests.has(id) in the timer callback
TimerFindsEntry(table, id) == id \in DOMAIN table

\* (mutant) a delete that leaves the entry in the table
MapKeeps(table, id) == table

\* this.pendingRequests.delete(id)
MapDelete(table, id) == [k \in DOMAIN table \ {id} |-> table[k]]

\* an action of the sidecar leaves the server and the framer's stream alone
ClientOnly == UNCHANGED <<serverVars, framerVars, routerVars, lifecycleVars, idVars, bufferVars, toolVars, contributionVars>>

\* IPCClient.request past its check of this.socket: register the entry, write the
\* request, arm the timer
Request(method) ==
    /\ ClientOnly
    /\ socket = "connected"
    /\ requestCounter < MaxRequests
    /\ LET n == requestCounter + 1
           id == ReqIdOf(n)
       IN /\ requestCounter' = n
          /\ pendingRequests' = MapSet(pendingRequests, id, n)
          /\ atServer' = atServer \cup {[id |-> id, method |-> method]}
          /\ timers' = Append(timers, [id |-> id, call |-> n])
          /\ calls' = Append(calls, [id |-> id, method |-> method])
          /\ settled' = Append(settled, <<>>)
    /\ UNCHANGED <<socket, ipcConnected>>

\* a tool call that ends at once, with an error or a value, and no request
EndsAtOnce(tool, outcome) ==
    /\ ClientOnly
    /\ lastTool' = [tool |-> tool, outcome |-> outcome]
    /\ UNCHANGED <<pendingRequests, requestCounter, timers, atServer, calls, settled,
                   socket, ipcConnected>>

\* executeArduinoTool: the check of ipcConnected, the minimal context, and the
\* call of ipcClient.request, which throws when this.socket is null
ExecuteArduinoTool(tool) ==
    IF ~ipcConnected /\ tool # "arduino_context"
    THEN EndsAtOnce(tool, "Arduino IDE not connected")
    ELSE IF ~ipcConnected
    THEN EndsAtOnce(tool, "minimal context")
    ELSE IF socket = "null"
    THEN EndsAtOnce(tool, "IPC not connected")
    ELSE /\ Request(MethodOf(tool))
         /\ lastTool' = [tool |-> tool, outcome |-> "requested"]

\* the 'close' callback of the socket: this.socket = null, and nothing else
ClientClose ==
    /\ ClientOnly
    /\ socket = "connected"
    /\ socket' = "null"
    /\ UNCHANGED <<pendingRequests, requestCounter, timers, atServer, calls, settled,
                   ipcConnected, lastTool>>

\* the server answers one of the outstanding requests, in any order, and
\* IPCClient.handleData handles the response line
ResponseArrives(request, ok) ==
    /\ ClientOnly
    /\ socket = "connected"
    /\ request \in atServer
    /\ atServer' = atServer \ {request}
    /\ LET response == AnswerTo(request, ok)
           pending == PendingGet(pendingRequests, response.id)
       IN IF pending # {}
          THEN /\ pendingRequests' = MapDelete(pendingRequests, response.id)
               /\ settled' = [n \in DOMAIN settled |->
                                IF n \in pending
                                THEN Append(settled[n], OutcomeOf(response))
                                ELSE settled[n]]
          ELSE UNCHANGED <<pendingRequests, settled>>
    /\ UNCHANGED <<requestCounter, timers, calls, socket, ipcConnected, lastTool>>

\* the lines of one chunk the client handles
MaxBatch == 2

\* a response whose id the client never issued
StrayResponse == AnswerTo([id |-> ReqIdOf(0), method |-> "task/get"], TRUE)

\* an event the server broadcasts
AnEvent == [event |-> "roots/changed", data |-> EmptyObject]

\* the state of a handleData call: the table, the settlements, whether the loop ended early
DataCall0 == [table |-> pendingRequests, settled |-> settled, ended |-> FALSE]

\* (mutant) a loop body without `if (pending)` and without try/catch: the
\* TypeError of a response that matches no entry ends the loop
HandleLineUnguarded(acc, message) ==
    IF IsResponse(message)
    THEN LET pending == PendingGet(acc.table, message.id)
         IN IF pending # {}
            THEN [acc EXCEPT !.table = MapDelete(@, message.id),
                             !.settled = [n \in DOMAIN @ |->
                                            IF n \in pending
                                            THEN Append(@[n], OutcomeOf(message))
                                            ELSE @[n]]]
            ELSE [acc EXCEPT !.ended = TRUE]
    ELSE acc

\* the body of the loop of handleData for one parsed line: a response settles the
\* entry of its id, if there is one; an event is logged by handleEvent
HandleLine(acc, message) ==
    IF IsResponse(message)
    THEN LET pending == PendingGet(acc.table, message.id)
         IN IF pending # {}
            THEN [acc EXCEPT !.table = MapDelete(@, message.id),
                             !.settled = [n \in DOMAIN @ |->
                                            IF n \in pending
                                            THEN Append(@[n], OutcomeOf(message))
                                            ELSE @[n]]]
            ELSE acc
    ELSE acc

RECURSIVE HandleLines(_, _)
\* for (const line of lines) of handleData
HandleLines(acc, messages) ==
    IF messages = <<>> \/ acc.ended THEN acc
    ELSE HandleLines(HandleLine(acc, Head(messages)), Tail(messages))

\* what the server can send in one chunk: answers to outstanding requests, each
\* request answered once, events, and responses to no request of this client
Batches ==
    LET answers == {AnswerTo(request, ok) : request \in atServer, ok \in BOOLEAN}
        all == UNION {[1..k -> answers \cup {StrayResponse, AnEvent}] : k \in 1..MaxBatch}
    IN {b \in all : \A i \in 1..Len(b), j \in 1..Len(b) :
                        (i # j /\ b[i] \in answers /\ b[j] \in answers) => b[i].id # b[j].id}

\* the 'data' callback of the client's socket: IPCClient.handleData on a chunk of
\* complete lines
HandleData(messages) ==
    /\ ClientOnly
    /\ socket = "connected"
    /\ messages \in Batches
    /\ atServer' = {request \in atServer :
                      \A i \in 1..Len(messages) :
                          IsResponse(messages[i]) => messages[i].id # request.id}
    /\ LET done == HandleLines(DataCall0, messages)
       IN /\ pendingRequests' = done.table
          /\ settled' = done.settled
    /\ UNCHANGED <<requestCounter, timers, calls, socket, ipcConnected, lastTool>>

\* the setTimeout callback of a request; equal delays fire in the order armed
Timeout ==
    /\ ClientOnly
    /\ timers # <<>>
    /\ timers' = Tail(timers)
    /\ LET timer == Head(timers)
       IN IF TimerFindsEntry(pendingRequests, timer.id)
          THEN /\ pendingRequests' = MapDelete(pendingRequests, timer.id)
               /\ settled' = [settled EXCEPT ![timer.call] = Append(@, TimeoutOutcome)]
          ELSE UNCHANGED <<pendingRequests, settled>>
    /\ UNCHANGED <<requestCounter, atServer, calls, socket, ipcConnected, lastTool>>

ClientInit ==
    /\ ServerInit /\ FramerIdle /\ RouterIdle /\ LifecycleIdle /\ IdIdle /\ BufferIdle /\ ToolIdle /\ ContributionIdle
    /\ \E connected \in BOOLEAN : ClientStarted(connected)

Requests == {[id |-> ReqIdOf(n), method |-> method] : n \in 1..MaxRequests, method \in Methods}

ClientNext ==
    \/ \E tool \in Tools : ExecuteArduinoTool(tool)
    \/ ClientClose
    \/ \E request \in Requests, ok \in BOOLEAN : ResponseArrives(request, ok)
    \/ Timeout
    \/ \E messages \in Batches : HandleData(messages)

ClientSpec == ClientInit /\ [][ClientNext]_vars

\* the event loop runs the callback of every timer that is armed
ClientLiveSpec == ClientSpec /\ WF_vars(Timeout)

\* ------------------------------------------------------------ claims: correlation

CallNumbers == 1..Len(calls)
TimerArmed(n) == \E i \in 1..Len(timers) : timers[i].call = n
Unanswered(n) == \E request \in atServer : request.id = calls[n].id
\* the two outcomes the server's answer to call n can produce
OwnOutcomes(n) == {OutcomeOf(AnswerTo(calls[n], ok)) : ok \in BOOLEAN}

\* C7: whatever the number of outstanding calls and the order of the responses,
\* a call is settled by a response only with the result or error of the response
\* whose id is the id the call sent, never with another call's.
C7_SettledWithOwnResponse ==
    \A n \in CallNumbers :
        \A i \in 1..Len(settled[n]) :
            settled[n][i] \in OwnOutcomes(n) \cup {TimeoutOutcome}

C7_Witness ==
    /\ Len(calls) = MaxRequests
    /\ settled[1] = <<>> /\ ReqIdOf(1) \in DOMAIN pendingRequests
    /\ settled[MaxRequests] \in {<<o>> : o \in OwnOutcomes(MaxRequests)}
    /\ settled[2] # <<>>

\* C8: a call is settled at most once, by its response or by its timeout, whichever
\* comes first; it is settled exactly when its entry has left the table, so the
\* later of the two finds no entry and settles nobody.
C8_SettledExactlyOnce ==
    \A n \in CallNumbers :
        /\ Len(settled[n]) <= 1
        /\ (settled[n] = <<>>) <=> (calls[n].id \in DOMAIN pendingRequests)
        /\ (~TimerArmed(n) \/ ~Unanswered(n)) => Len(settled[n]) = 1
        /\ (settled[n] = <<>>) => (TimerArmed(n) /\ Unanswered(n))

C8_Witness ==
    \E n \in CallNumbers, m \in CallNumbers :
        /\ ~TimerArmed(n) /\ ~Unanswered(n) /\ settled[n] = <<TimeoutOutcome>>
        /\ ~TimerArmed(m) /\ ~Unanswered(m) /\ settled[m] # <<TimeoutOutcome>>

\* C18: when the socket of the client closes, every outstanding request fails
\* with it: once the socket is null no call is left unsettled.
C18_CloseFailsOutstanding ==
    socket = "null" => \A n \in CallNumbers : Len(settled[n]) = 1

\* C19: degraded mode fails fast: with no connection at startup, or with the
\* socket closed since, a tool call writes no request, registers no entry and arms
\* no timer; arduino_context answers the minimal context, every other tool fails
\* with a not-connected error.
C19_DegradedFailsFast ==
    [][\A tool \in Tools :
          (ExecuteArduinoTool(tool) /\ (~ipcConnected \/ socket = "null"))
          => /\ UNCHANGED <<pendingRequests, requestCounter, timers, atServer, calls>>
             /\ tool = "arduino_context" => lastTool'.outcome = "minimal context"
             /\ tool # "arduino_context"
                   => lastTool'.outcome \in {"Arduino IDE not connected", "IPC not connected"}]_vars

\* the ids of the responses of a chunk that find an entry in the table
MatchedIds(messages) ==
    {messages[i].id : i \in {j \in 1..Len(messages) : IsResponse(messages[j])}}
        \cap DOMAIN pendingRequests

\* C26: in a chunk the client handles, a response whose id has no entry in the
\* pending table and an event settle nothing and change no entry; the responses
\* around them in the chunk are handled all the same: the entries of exactly the
\* matched ids are removed and their calls settled once, with that response.
C26_UnmatchedAndEventsAreInert ==
    [][\A messages \in Batches :
          HandleData(messages)
          => /\ pendingRequests' = [k \in DOMAIN pendingRequests \ MatchedIds(messages) |->
                                      pendingRequests[k]]
             /\ \A n \in CallNumbers :
                   IF calls[n].id \in MatchedIds(messages)
                   THEN \E i \in 1..Len(messages) :
                           /\ IsResponse(messages[i]) /\ messages[i].id = calls[n].id
                           /\ settled'[n] = Append(settled[n], OutcomeOf(messages[i]))
                   ELSE settled'[n] = settled[n]]_vars

\* the response to a call that had timed out came and was dropped, a later call was
\* settled by its response, and the entry of a third is still in the table
C26_Witness ==
    \E n \in CallNumbers, m \in CallNumbers, k \in CallNumbers :
        /\ settled[n] = <<TimeoutOutcome>> /\ ~Unanswered(n)
        /\ Len(settled[m]) = 1 /\ settled[m][1].kind = "resolve"
        /\ settled[k] = <<>> /\ calls[k].id \in DOMAIN pendingRequests
        /\ pendingRequests[calls[k].id] = k

\* the entry of call n has left the table and its promise has settled, once
Settled(n) == Len(settled[n]) = 1 /\ calls[n].id \notin DOMAIN pendingRequests

\* C31: every request call that registered an entry is settled, and its entry
\* removed, at the latest when its timer fires, and under a fair event loop that
\* does happen; the table holds only ids of calls that have not settled and whose
\* timer is still armed, so it is never larger than the number of armed timers.
C31_PendingEntriesSettle ==
    /\ [](\A id \in DOMAIN pendingRequests :
            \E n \in CallNumbers :
                calls[n].id = id /\ settled[n] = <<>> /\ TimerArmed(n))
    /\ [](Cardinality(DOMAIN pendingRequests) <= Len(timers))
    /\ [](\A n \in CallNumbers : ~TimerArmed(n) => Settled(n))
    /\ \A n \in 1..MaxRequests : (Len(calls) >= n) ~> (Len(calls) >= n /\ Settled(n))

\* every call there can be was made, the timers have all fired and the table is
\* empty: one call was settled by its timer, another by its response
C31_Witness ==
    /\ Len(calls) = MaxRequests /\ timers = <<>> /\ DOMAIN pendingRequests = {}
    /\ \A n \in CallNumbers : Settled(n)
    /\ \E n \in CallNumbers, m \in CallNumbers :
          settled[n] = <<TimeoutOutcome>> /\ settled[m][1].kind = "resolve"

\* ------------------------------------------------------------ framing

MaxChars == 5

\* the characters of the streams: newline, space, the braces of the JSON document {}
\* (bytes of their own), e-acute (the two bytes C3 A9), and U+FFFD, which
\* Buffer.toString() puts in the place of bytes that are no complete UTF-8 sequence
Ch == [nl |-> 10, sp |-> 32, open |-> 123, close |-> 125, eacute |-> 233,
       replacement |-> 65533]

\* the UTF-8 encoding of each character a peer writes
Encodings == {<<10>>, <<32>>, <<123>>, <<125>>, <<195, 169>>}

RECURSIVE Streams(_)
\* the byte streams of at most n characters: what a peer's socket.write calls
\* put on the stream, JSON.stringify(...) + '\n' or anything else
Streams(n) ==
    IF n = 0 THEN {<<>>}
    ELSE LET shorter == Streams(n - 1)
         IN shorter \cup {s \o e : s \in shorter, e \in Encodings}

RECURSIVE Utf8Decode(_)
\* data.toString(): the chunk alone is decoded as UTF-8
Utf8Decode(bytes) ==
    IF bytes = <<>> THEN <<>>
    ELSE LET b == Head(bytes)
         IN IF b < 128
            THEN <<b>> \o Utf8Decode(Tail(bytes))
            ELSE IF b \in 194..223 /\ Len(bytes) >= 2 /\ bytes[2] \in 128..191
            THEN <<(b - 192) * 64 + (bytes[2] - 128)>>
                 \o Utf8Decode(SubSeq(bytes, 3, Len(bytes)))
            ELSE <<Ch.replacement>> \o Utf8Decode(Tail(bytes))

RECURSIVE Split(_)
\* String.prototype.split('\n'): at least one fragment, the last one after the
\* last newline
Split(string) ==
    IF \A i \in 1..Len(string) : string[i] # Ch.nl THEN <<string>>
    ELSE LET i == CHOOSE j \in 1..Len(string) :
                      string[j] = Ch.nl /\ \A k \in 1..(j - 1) : string[k] # Ch.nl
         IN <<SubSeq(string, 1, i - 1)>> \o Split(SubSeq(string, i + 1, Len(string)))

\* String.prototype.trim()
Trim(string) ==
    LET inked == {i \in 1..Len(string) : string[i] # Ch.sp}
    IN IF inked = {} THEN <<>>
       ELSE SubSeq(string, CHOOSE i \in inked : \A j \in inked : i <= j,
                           CHOOSE i \in inked : \A j \in inked : i >= j)

\* whether JSON.parse(line) returns: over these characters the only documents are
\* { and } with white space around and between them
JsonValid(line) ==
    LET t == Trim(line)
    IN /\ Len(t) >= 2
       /\ t[1] = Ch.open /\ t[Len(t)] = Ch.close
       /\ \A i \in 2..(Len(t) - 1) : t[i] = Ch.sp

\* JSON.parse(line) of a valid line: the object {}
JsonParse(line) == EmptyObject

\* routeRequest of {}: method is undefined, method.startsWith throws a TypeError,
\* which handleMessage answers; request.id is undefined, so the response has no id
RouteFailure == [error |-> [code |-> 0 - 1, message |-> "Cannot read properties of undefined"]]

\* what a data callback has done so far
Progress0 == [handed |-> handed, decoded |-> decoded, replies |-> replies, thrown |-> FALSE]

\* (mutant) a handleMessage that lets the parse failure escape
ServerHandleMessageThrows(acc, line) ==
    IF ~JsonValid(line)
    THEN [acc EXCEPT !.thrown = TRUE]
    ELSE [acc EXCEPT !.decoded = Append(@, JsonParse(line)),
                     !.replies = Append(@, RouteFailure)]

\* handleMessage: a line that does not parse is logged and dropped; a parsed one
\* is routed and answered
ServerHandleMessage(acc, line) ==
    IF ~JsonValid(line)
    THEN acc
    ELSE [acc EXCEPT !.decoded = Append(@, JsonParse(line)),
                     !.replies = Append(@, RouteFailure)]

\* the try/catch in the loop of IPCClient.handleData: {} has neither id nor event
ClientHandleLine(acc, line) ==
    IF ~JsonValid(line)
    THEN acc
    ELSE [acc EXCEPT !.decoded = Append(@, JsonParse(line))]

RECURSIVE ServerLoop(_, _)
\* for (const line of lines) { if (!line.trim()) continue; await handleMessage }
ServerLoop(acc, lines) ==
    IF lines = <<>> \/ acc.thrown THEN acc
    ELSE LET line == Head(lines)
         IN ServerLoop(IF Trim(line) = <<>> THEN acc
                       ELSE ServerHandleMessage([acc EXCEPT !.handed = Append(@, line)], line),
                       Tail(lines))

RECURSIVE ClientLoop(_, _)
\* for (const line of lines) { if (!line.trim()) continue; try { ... } catch ... }
ClientLoop(acc, lines) ==
    IF lines = <<>> \/ acc.thrown THEN acc
    ELSE LET line == Head(lines)
         IN ClientLoop(IF Trim(line) = <<>> THEN acc
                       ELSE ClientHandleLine([acc EXCEPT !.handed = Append(@, line)], line),
                       Tail(lines))

\* lines.pop(): the fragments before the last, and the last
Front(fragments) == SubSeq(fragments, 1, Len(fragments) - 1)
Last(fragments) == fragments[Len(fragments)]

\* an action of the framer leaves the server's tasks and the sidecar's table alone
FramerOnly == UNCHANGED <<serverVars, clientVars, routerVars, lifecycleVars, idVars, bufferVars, toolVars, contributionVars>>

\* the socket 'data' callback of handleClientConnection, on a chunk of k bytes
ServerOnData(k) ==
    /\ FramerOnly
    /\ side = "server"
    /\ k <= Len(rest)
    /\ LET data == Utf8Decode(SubSeq(rest, 1, k))
           lines == Split(buffer \o data)
           done == ServerLoop(Progress0, Front(lines))
       IN /\ buffer' = Last(lines)
          /\ text' = text \o data
          /\ handed' = done.handed
          /\ decoded' = done.decoded
          /\ replies' = done.replies
    /\ rest' = SubSeq(rest, k + 1, Len(rest))
    /\ UNCHANGED <<side, whole>>

\* IPCClient.handleData, on a chunk of k bytes
ClientOnData(k) ==
    /\ FramerOnly
    /\ side = "client"
    /\ k <= Len(rest)
    /\ LET data == Utf8Decode(SubSeq(rest, 1, k))
           lines == Split(buffer \o data)
           done == ClientLoop(Progress0, Front(lines))
       IN /\ buffer' = Last(lines)
          /\ text' = text \o data
          /\ handed' = done.handed
          /\ decoded' = done.decoded
          /\ replies' = done.replies
    /\ rest' = SubSeq(rest, k + 1, Len(rest))
    /\ UNCHANGED <<side, whole>>

FramerInit ==
    /\ ServerInit /\ ClientIdle /\ RouterIdle /\ LifecycleIdle /\ IdIdle /\ BufferIdle /\ ToolIdle /\ ContributionIdle
    /\ side \in {"server", "client"}
    /\ whole \in Streams(MaxChars)
    /\ rest = whole
    /\ buffer = <<>>
    /\ text = <<>>
    /\ handed = <<>>
    /\ decoded = <<>>
    /\ replies = <<>>

FramerNext ==
    \/ \E k \in 1..(2 * MaxChars) : ServerOnData(k)
    \/ \E k \in 1..(2 * MaxChars) : ClientOnData(k)

FramerSpec == FramerInit /\ [][FramerNext]_vars

\* ------------------------------------------------------------ claims: framing

NonBlank(line) == Trim(line) # <<>>
\* the complete, non-blank lines of a text
LinesOf(string) == SelectSeq(Front(Split(string)), NonBlank)
Delivered == SubSeq(whole, 1, Len(whole) - Len(rest))

\* C9: however the stream is cut into chunks, the lines handed on are the lines
\* handed on when the same bytes arrive as one chunk.
C9_ChunkingIsIrrelevant ==
    handed = LinesOf(Utf8Decode(Delivered))

\* C10: a line that is not valid JSON yields no decoded message and no response and
\* does not stop the decoding: the decoded messages are those of all the valid
\* lines received so far, in order, and the server has answered each of them.
C10_MalformedLineIsIsolated ==
    LET valid == SelectSeq(LinesOf(text), JsonValid)
    IN /\ handed = LinesOf(text)
       /\ decoded = [i \in 1..Len(valid) |-> JsonParse(valid[i])]
       /\ Len(replies) = IF side = "server" THEN Len(valid) ELSE 0

C10_Witness ==
    /\ side = "server"
    /\ Len(handed) = 2 /\ ~JsonValid(handed[1]) /\ JsonValid(handed[2])
    /\ decoded = <<EmptyObject>> /\ replies = <<RouteFailure>>

\* ------------------------------------------------------------ the data callback and the method router

MaxLines == 3
MaxChunk == 2

\* a method name: the text before its '/' and the text after it
RouterMethods ==
    {<<"roots", "list">>, <<"library", "list">>, <<"library", "bogus">>, <<"bogus", "list">>}
\* the methods of RouterMethods that IPCMethod lists
KnownMethods == {<<"roots", "list">>, <<"library", "list">>}
\* the line `null`: valid JSON that is no request object
NullLine == <<"null">>
\* a line of a chunk: the request { id, method, params } of a method, or `null`
Lines == RouterMethods \cup {NullLine}

\* how a handler ends before control returns to the event loop: it returns a value,
\* throws, or awaits a call of an IDE service
Returns(value) == [kind |-> "return", value |-> value]
Throws(message) == [kind |-> "throw", message |-> message]
Awaits(call) == [kind |-> "await", call |-> call]

\* handleRoots
HandleRoots(method) ==
    IF method = <<"roots", "list">>
    THEN Returns(IF currentSketch = "null" THEN <<>> ELSE <<currentSketch>>)
    ELSE Throws(<<"Unknown roots method: ">> \o method)

\* handleLibrary: the service is looked at before the method; 'library/list' awaits
\* libraryService.list
HandleLibrary(method) ==
    IF ~libraryService
    THEN Throws(<<"LibraryService not available">>)
    ELSE IF method = <<"library", "list">>
    THEN Awaits("libraryService.list")
    ELSE Throws(<<"Unknown library method: ">> \o method)

\* routeRequest: the dispatch on method.startsWith(prefix + '/'), for the prefixes
\* of RouterMethods
RouteRequest(method) ==
    IF method[1] = "roots" THEN HandleRoots(method)
    ELSE IF method[1] = "library" THEN HandleLibrary(method)
    ELSE Throws(<<"Unknown IPC method: ">> \o method)

\* how the awaited libraryService.list ends the handler: the rest of the handler
\* returns { libraries }, or the rejection leaves the handler as it is
AfterAwait(method, ok) ==
    IF ok THEN Returns(<<"libraries">>) ELSE Throws(<<"list failed">>)

\* a line as the data callback receives it on socket c
NewEntry(c, line) ==
    [conn |-> c, line |-> line, routed |-> FALSE, thrown |-> <<>>, answers |-> <<>>]

\* what a data callback has done so far: the log, the socket.write calls, the
\* await it is suspended in, whether handleMessage rejected
Callback0 == [log |-> log, wrote |-> <<>>, suspended |-> {}, aborted |-> FALSE]

\* socket.write(JSON.stringify(response) + '\n') on the socket of the request
Write(c, acc, n, response) ==
    [acc EXCEPT !.wrote = Append(@, [conn |-> c, response |-> response]),
                !.log[n].answers = Append(@, [conn |-> c, response |-> response])]

\* (mutant) a handleMessage without its second try/catch: the failure leaves it
SettleUncaught(c, acc, n, outcome) ==
    IF outcome.kind = "throw"
    THEN [acc EXCEPT !.log[n].thrown = Append(@, outcome.message), !.aborted = TRUE]
    ELSE Write(c, acc, n, ResultResponse(ReqIdOf(n), outcome.value))

\* handleMessage once routeRequest has settled: the result is written, or the
\* catch writes the failure's message with code -1
Settle(c, acc, n, outcome) ==
    IF outcome.kind = "throw"
    THEN Write(c, [acc EXCEPT !.log[n].thrown = Append(@, outcome.message)], n,
               ErrorResponse(ReqIdOf(n), outcome.message))
    ELSE Write(c, acc, n, ResultResponse(ReqIdOf(n), outcome.value))

\* handleMessage of line n, the lines `after` it waiting in the loop.  JSON.parse of
\* `null` succeeds; routeRequest(null) then throws, and so does the catch at
\* request.id: handleMessage rejects, and with it the data callback
HandleMessage(c, acc, n, after) ==
    LET line == acc.log[n].line
        routed == [acc EXCEPT !.log[n].routed = TRUE]
    IN IF line = NullLine
       THEN [acc EXCEPT !.aborted = TRUE]
       ELSE IF RouteRequest(line).kind = "await"
       THEN [routed EXCEPT !.suspended = {[awaited |-> n, todo |-> after]}]
       ELSE Settle(c, routed, n, RouteRequest(line))

RECURSIVE RunLines(_, _, _)
\* for (const line of lines) { ...; await this.handleMessage(socket, line) }, up to
\* the first await of a service call
RunLines(c, acc, todo) ==
    IF todo = <<>> \/ acc.aborted \/ acc.suspended # {} THEN acc
    ELSE RunLines(c, HandleMessage(c, acc, Head(todo), Tail(todo)), Tail(todo))

\* the socket.write calls of a callback, per socket
WrittenBy(wrote) ==
    [d \in Conns |->
        LET onD(w) == w.conn = d
            mine == SelectSeq(wrote, onD)
        IN [i \in 1..Len(mine) |-> mine[i].response]]

\* an action of the router leaves the tasks, the sidecar and the framer's stream alone
RouterOnly ==
    UNCHANGED <<tasks, taskCounter, immediates, awaiting, currentSketch, acked, broken,
                clientVars, framerVars, libraryService, lifecycleVars, idVars, bufferVars, toolVars, contributionVars>>

\* the chunks: one to MaxChunk complete lines
Chunks == UNION {[1..k -> Lines] : k \in 1..MaxChunk}

\* the socket 'data' callback of handleClientConnection on a chunk of complete lines
OnData(c, chunk) ==
    /\ RouterOnly
    /\ sockets[c] = "open"
    /\ Len(log) + Len(chunk) <= MaxLines
    /\ LET numbers == [i \in 1..Len(chunk) |-> Len(log) + i]
           arrived == [Callback0 EXCEPT
                          !.log = log \o [i \in 1..Len(chunk) |-> NewEntry(c, chunk[i])]]
           done == RunLines(c, arrived, numbers)
       IN /\ log' = done.log
          /\ loops' = [loops EXCEPT ![c] = @ \cup done.suspended]
          /\ written' = WrittenBy(done.wrote)
    /\ UNCHANGED <<sockets, clients>>

\* the service call a data callback awaits settles: handleMessage answers, and the
\* loop of that callback goes on
HandlerSettles(c, loop, ok) ==
    /\ RouterOnly
    /\ loop \in loops[c]
    /\ LET n == loop.awaited
           done == RunLines(c, Settle(c, Callback0, n, AfterAwait(log[n].line, ok)), loop.todo)
       IN /\ log' = done.log
          /\ loops' = [loops EXCEPT ![c] = (@ \ {loop}) \cup done.suspended]
          /\ written' = WrittenBy(done.wrote)
    /\ UNCHANGED <<sockets, clients>>

RouterInit ==
    /\ ServerInit /\ ClientIdle /\ FramerIdle /\ LifecycleIdle /\ IdIdle /\ BufferIdle /\ ToolIdle /\ ContributionIdle
    /\ libraryService \in BOOLEAN
    /\ loops = [c \in Conns |-> {}]
    /\ log = <<>>

\* the callbacks a line can be waiting in
Loops == {[awaited |-> n, todo |-> todo] :
            n \in 1..MaxLines,
            todo \in UNION {[1..k -> 1..MaxLines] : k \in 0..(MaxChunk - 1)}}

\* a socket slot is taken again once the callbacks of its last socket have ended
RouterNext ==
    \/ \E c \in Conns : loops[c] = {} /\ Accept(c)
    \/ \E c \in Conns : SocketClose(c)
    \/ \E c \in Conns, chunk \in Chunks : OnData(c, chunk)
    \/ \E c \in Conns, loop \in Loops, ok \in BOOLEAN : HandlerSettles(c, loop, ok)

RouterSpec == RouterInit /\ [][RouterNext]_vars

\* ------------------------------------------------------------ claims: routing

Numbers == 1..Len(log)
Awaited(n) == \E c \in Conns : \E loop \in loops[c] : loop.awaited = n
\* the lines that wait behind line n in the callback that awaits its handler
Behind(n) == UNION {{loop.todo : loop \in {l \in loops[c] : l.awaited = n}} : c \in Conns}
ErrorOf(n) == [code |-> 0 - 1, message |-> log[n].thrown[1]]
HasResult(response) == "result" \in DOMAIN response
HasError(response) == "error" \in DOMAIN response

\* C11: a failure raised while routing or executing a request is answered on the
\* socket of the request by one response with error.code -1 and the failure's
\* message; the step that raises it closes no socket, removes none from the
\* broadcast set, and goes on to route the request that follows in the same chunk.
C11_FailureBecomesErrorResponse ==
    [][\A n \in 1..Len(log') :
          (log'[n].thrown # <<>> /\ (n > Len(log) \/ log[n].thrown = <<>>))
          => /\ log'[n].thrown = <<log'[n].thrown[1]>>
             /\ log'[n].answers =
                   <<[conn |-> log'[n].conn,
                      response |-> [id |-> ReqIdOf(n),
                                    error |-> [code |-> 0 - 1,
                                               message |-> log'[n].thrown[1]]]]>>
             /\ sockets' = sockets /\ clients' = clients
             /\ (n > Len(log) /\ n < Len(log') /\ log'[n + 1].line # NullLine)
                   => log'[n + 1].routed
             /\ \A todo \in (IF n <= Len(log) THEN Behind(n) ELSE {}) :
                   (todo # <<>> /\ log[todo[1]].line # NullLine) => log'[todo[1]].routed]_vars

C11_Witness ==
    \E n \in Numbers, m \in Numbers :
        /\ n < m /\ log[n].conn = log[m].conn
        /\ log[n].thrown = <<<<"list failed">>>>
        /\ log[n].answers = <<[conn |-> log[n].conn,
                               response |-> ErrorResponse(ReqIdOf(n), <<"list failed">>)]>>
        /\ Len(log[m].answers) = 1 /\ HasResult(log[m].answers[1].response)
        /\ log[m].answers[1].conn = log[n].conn
        /\ sockets[log[n].conn] = "open" /\ log[n].conn \in clients
        /\ written[log[n].conn] = <<log[m].answers[1].response>>

\* the lines that wait in a data callback behind a line whose handler is awaited
Queued(n) ==
    \E c \in Conns : \E loop \in loops[c] : \E i \in 1..Len(loop.todo) : loop.todo[i] = n

\* C12: for every line that is a request, once the data callback that received it
\* is past it, the server has written exactly one response, on the socket the
\* line arrived on, with the id of the request and with exactly one of result and
\* error; nothing is written for it before, and nothing for a line that is not a
\* request.
C12_OneResponsePerRequest ==
    \A n \in Numbers :
        IF log[n].line # NullLine /\ ~Awaited(n) /\ ~Queued(n)
        THEN /\ Len(log[n].answers) = 1
             /\ log[n].answers[1].conn = log[n].conn
             /\ log[n].answers[1].response.id = ReqIdOf(n)
             /\ HasResult(log[n].answers[1].response) # HasError(log[n].answers[1].response)
        ELSE log[n].answers = <<>>

\* the messages with which routeRequest and the handlers report an unknown method
MethodNotFound ==
    {"Unknown IPC method: ", "Unknown roots method: ", "Unknown library method: "}

\* C13: a request for a method the server does not know is answered with a
\* 'method not found' error, and no failure of a handler of a known method is
\* answered with one: the two kinds of error can be told apart.
C13_UnknownMethodIsDistinct ==
    \A n \in Numbers :
        \A i \in 1..Len(log[n].answers) :
            LET response == log[n].answers[i].response
            IN IF log[n].line \in KnownMethods
               THEN HasError(response) => response.error.message[1] \notin MethodNotFound
               ELSE HasError(response) /\ response.error.message[1] \in MethodNotFound

\* C17: within one socket requests are processed one at a time: the routing of a
\* request does not start in a step through which an earlier request of the same
\* socket goes on awaiting its handler.
C17_OneRequestAtATime ==
    [][\A c \in Conns :
          \A n \in 1..Len(log') :
              (/\ log'[n].conn = c
               /\ log'[n].routed
               /\ (n > Len(log) \/ ~log[n].routed))
              => loops[c] \cap loops'[c] = {}]_vars

\* the data callback comes to line i of its chunk without awaiting a service call
ComesTo(chunk, i) ==
    \A j \in 1..(i - 1) : chunk[j] = NullLine \/ RouteRequest(chunk[j]).kind # "await"

\* C36: a line that is valid JSON but no request object does not end the data
\* callback that comes to it: the socket stays open and in the broadcast set, and
\* the request on the next line of the same chunk is routed.
C36_NonRequestLineIsPassedOver ==
    [][\A c \in Conns, chunk \in Chunks :
          OnData(c, chunk)
          => \A i \in 1..Len(chunk) :
                (chunk[i] = NullLine /\ ComesTo(chunk, i))
                => /\ sockets'[c] = "open" /\ c \in clients'
                   /\ (i < Len(chunk) /\ chunk[i + 1] # NullLine)
                         => log'[Len(log) + i + 1].routed]_vars

\* ------------------------------------------------------------ lifecycle: start() and stop()
\*
\* start() and stop() run to their first asynchronous step in the caller's tick;
\* the 'listening' callback follows on the next tick (a pipe is bound inside
\* listen()), before any I/O event, so that only further calls of the same tick
\* come between the two.  The 'close' callback of a server follows once its
\* handle is closed and the sockets it accepted have closed.

MaxCalls == 4

\* a socket file left at getSocketPath() by a process that did not stop
StaleFile == MaxCalls + 1

Platforms == {"linux", "win32"}

Created == 1..Len(servers)

\* the servers with a handle: bound to the address, before or after 'listening'
HasHandle(state) == state \in {"bound", "listening"}

Listening(all) == {s \in 1..Len(all) : all[s] = "listening"}

\* every socket the server accepted has had its 'close'
Drained(s) == \A c \in Conns : owner[c] = s => sockets[c] = "closed"

\* no callback of process.nextTick is due
TickOver == \A s \in Created : servers[s] # "bound"

Promise(op, s, outcome) == [op |-> op, server |-> s, outcome |-> outcome]

\* the promises the callback of server s settles
Settles(op, s) ==
    [i \in 1..Len(promises) |->
        IF promises[i] = Promise(op, s, "pending")
        THEN Promise(op, s, "resolved")
        ELSE promises[i]]

LifecycleOnly ==
    UNCHANGED <<tasks, taskCounter, immediates, awaiting, currentSketch, acked, broken,
                clientVars, framerVars, routerVars, platform, idVars, bufferVars, toolVars>>

\* start() past its first statement: a new server, bound to the address
CreateServer ==
    LET s == Len(servers) + 1
        inUse == platform = "win32" /\ address # NoServer
    IN /\ LifecycleOnly
       /\ Len(promises) < MaxCalls
       /\ server' = s
       /\ servers' = Append(servers, IF inUse THEN "failed" ELSE "bound")
       /\ address' = IF inUse THEN address ELSE s
       /\ promises' = Append(promises,
                             Promise("start", s, IF inUse THEN "rejected" ELSE "pending"))
       /\ written' = NoWrites
       /\ UNCHANGED <<isRunning, owner, sockets, clients>>

\* start(): returns at once when isRunning; otherwise removes the socket file
\* (not on win32), creates a server and binds it to the address; on win32 the
\* pipe of a server that still has its handle makes listen fail with EADDRINUSE
Start ==
    IF isRunning
    THEN /\ LifecycleOnly
         /\ Len(promises) < MaxCalls
         /\ promises' = Append(promises, Promise("start", NoServer, "resolved"))
         /\ written' = NoWrites
         /\ UNCHANGED <<isRunning, server, servers, address, owner, sockets, clients>>
    ELSE CreateServer

\* the callback passed to listen
ListenCallback(s) ==
    /\ LifecycleOnly
    /\ s \in Created
    /\ servers[s] = "bound"
    /\ servers' = [servers EXCEPT ![s] = "listening"]
    /\ isRunning' = TRUE
    /\ promises' = Settles("start", s)
    /\ written' = NoWrites
    /\ UNCHANGED <<server, address, owner, sockets, clients>>

\* net.createServer callback: handleClientConnection, for the server that holds the address
Connect(c) ==
    /\ LifecycleOnly
    /\ TickOver
    /\ address \in Listening(servers)
    /\ sockets[c] = "closed"
    /\ sockets' = [sockets EXCEPT ![c] = "open"]
    /\ clients' = clients \cup {c}
    /\ owner' = [owner EXCEPT ![c] = address]
    /\ written' = NoWrites
    /\ UNCHANGED <<isRunning, server, servers, address, promises>>

\* stop(): destroys and forgets every client (the 'close' of each socket follows),
\* then closes this.server, whatever its state: closing the handle releases the
\* address, and the callback waits for the server's 'close'
Stop ==
    /\ LifecycleOnly
    /\ Len(promises) < MaxCalls
    /\ clients' = {}
    /\ IF server # NoServer
       THEN /\ servers' = [servers EXCEPT ![server] = "closing"]
            /\ address' = IF HasHandle(servers[server]) THEN NoServer ELSE address
            /\ promises' = Append(promises, Promise("stop", server, "pending"))
       ELSE /\ promises' = Append(promises, Promise("stop", NoServer, "resolved"))
            /\ UNCHANGED <<servers, address>>
    /\ written' = NoWrites
    /\ UNCHANGED <<isRunning, server, owner, sockets>>

\* the 'close' of a server: the callbacks stop() passed to close
CloseCallback(s) ==
    /\ LifecycleOnly
    /\ TickOver
    /\ s \in Created
    /\ servers[s] = "closing"
    /\ Drained(s)
    /\ servers' = [servers EXCEPT ![s] = "closed"]
    /\ address' = IF platform # "win32" THEN NoServer ELSE address
    /\ isRunning' = FALSE
    /\ promises' = Settles("stop", s)
    /\ written' = NoWrites
    /\ UNCHANGED <<server, owner, sockets, clients>>

LifecycleInit ==
    /\ ServerInit /\ ClientIdle /\ FramerIdle /\ RouterIdle /\ IdIdle /\ BufferIdle /\ ToolIdle /\ ContributionIdle
    /\ isRunning = FALSE
    /\ server = NoServer
    /\ servers = <<>>
    /\ platform \in Platforms
    /\ address \in (IF platform = "win32" THEN {NoServer} ELSE {NoServer, StaleFile})
    /\ owner = [c \in Conns |-> NoServer]
    /\ promises = <<>>

LifecycleNext ==
    \/ Start /\ UNCHANGED mcpEnabled
    \/ Stop /\ UNCHANGED mcpEnabled
    \/ \E s \in 1..MaxCalls : ListenCallback(s) /\ UNCHANGED mcpEnabled
    \/ \E s \in 1..MaxCalls : CloseCallback(s) /\ UNCHANGED mcpEnabled
    \/ \E c \in Conns : Connect(c) /\ UNCHANGED mcpEnabled
    \/ \E c \in Conns : TickOver /\ SocketClose(c)

LifecycleSpec == LifecycleInit /\ [][LifecycleNext]_vars

\* ------------------------------------------------------------ the contribution

\* MCPContribution.onStart with ARDUINO_MCP_DISABLED not set: await this.ipcServer.start()
OnStart ==
    /\ promises = <<>>
    /\ Start
    /\ UNCHANGED mcpEnabled

\* onStart has run and its start() has resolved
OnStartDone == promises # <<>> /\ promises[1].outcome = "resolved"

\* MCPContribution.setMCPEnabled: nothing when the value is the same; else
\* ipcServer.start(), or sidecarLauncher.stop(), which with no sidecar process
\* spawned calls ipcServer.stop() at once; neither promise is awaited
SetMCPEnabled(enabled) ==
    /\ OnStartDone
    /\ IF mcpEnabled = enabled
       THEN UNCHANGED vars
       ELSE /\ mcpEnabled' = enabled
            /\ IF enabled THEN Start ELSE Stop

ContributionNext ==
    \/ OnStart
    \/ \E enabled \in BOOLEAN : SetMCPEnabled(enabled)
    \/ \E s \in 1..MaxCalls : ListenCallback(s) /\ UNCHANGED mcpEnabled
    \/ \E s \in 1..MaxCalls : CloseCallback(s) /\ UNCHANGED mcpEnabled
    \/ \E c \in Conns : Connect(c) /\ UNCHANGED mcpEnabled
    \/ \E c \in Conns : TickOver /\ SocketClose(c)

ContributionSpec == LifecycleInit /\ [][ContributionNext]_vars

\* ------------------------------------------------------------ claims: lifecycle

\* C20: start() on a server that is running changes nothing and leaves exactly one
\* listening server and the connections as they were; stop() on a server that was
\* never started completes at once, stop() on a stopped server completes with its
\* 'close', and isRunning is false when a stop() has completed.
C20_StartStopIdempotent ==
    [][/\ (Start /\ isRunning)
          => /\ UNCHANGED <<isRunning, server, servers, address, owner, sockets, clients>>
             /\ promises'[Len(promises')].outcome = "resolved"
             /\ Cardinality(Listening(servers')) = 1
       /\ (Stop /\ server = NoServer)
          => /\ promises'[Len(promises')].outcome = "resolved"
             /\ ~isRunning'
       /\ (Stop /\ server # NoServer)
          => servers'[server] = "closing"
       /\ \A i \in 1..Len(promises) :
             (/\ promises[i].op = "stop"
              /\ promises[i].outcome = "pending"
              /\ promises'[i].outcome # "pending")
             => promises'[i].outcome = "resolved" /\ ~isRunning']_vars

\* a stop() promise resolves in this step
StopCompletes ==
    \E i \in 1..Len(promises') :
        /\ promises'[i] = Promise("stop", promises'[i].server, "resolved")
        /\ (i > Len(promises) \/ promises[i].outcome = "pending")

\* a stop() has completed and no call is in progress
Stopped ==
    /\ \E i \in 1..Len(promises) : promises[i].op = "stop"
    /\ \A i \in 1..Len(promises) : promises[i].outcome # "pending"
    /\ promises[Len(promises)].op = "stop"

\* C21: when a stop() completes every socket is closed, the broadcast set is empty,
\* no server holds the address and isRunning is false; a start() issued after that
\* binds a new server to the address, stale socket file or not, and its listen
\* callback makes isRunning true.
C21_StopReleasesEverything ==
    [][/\ StopCompletes
          => /\ \A c \in Conns : sockets'[c] = "closed"
             /\ clients' = {}
             /\ address' \notin 1..Len(servers')
             /\ ~isRunning'
       /\ (Start /\ Stopped)
          => /\ Len(servers') = Len(servers) + 1
             /\ servers'[server'] = "bound"
             /\ address' = server'
       /\ (\E s \in Created : ListenCallback(s)) => isRunning']_vars

\* the last call was a stop(): no start() has been called since
AfterStop == promises # <<>> /\ promises[Len(promises)].op = "stop"

\* C32: the broadcast set holds only sockets that were accepted and have had
\* neither 'close' nor 'error'; an accepted socket is put in the set and leaves it
\* only with its 'close' or 'error' or in stop(); from a stop() until the next
\* start() the set is empty.
C32_BroadcastSetIsOpenConnections ==
    [][/\ clients' \subseteq {c \in Conns : sockets'[c] = "open"}
       /\ \A c \in Conns : Connect(c) => c \in clients'
       /\ \A c \in clients \ clients' : sockets'[c] = "closed" \/ Stop
       /\ AfterStop' => clients' = {}]_vars

\* every start() and stop() promise has settled
AllSettled == \A i \in 1..Len(promises) : promises[i].outcome # "pending"

\* C34: after a successful onStart and any setMCPEnabled calls, once every
\* start() and stop() promise has settled, isServerRunning() equals
\* isMCPEnabled(): the server runs exactly when MCP is enabled.
C34_RunningFollowsEnabled ==
    (OnStartDone /\ AllSettled) => (isRunning = mcpEnabled)

\* the servers that hold a handle
WithHandle(all) == {s \in 1..Len(all) : HasHandle(all[s])}

\* C35: a start() called before the listen callback of an earlier start() has
\* run creates no second server; at most one server is bound to or listening on
\* the address at any time, and after a stop() no server that start() created is
\* left with its handle open.
C35_OverlappingStartsShareOneServer ==
    [][/\ (Start /\ ~TickOver) => Len(servers') = Len(servers)
       /\ Cardinality(WithHandle(servers')) <= 1
       /\ Stop => WithHandle(servers') = {}]_vars

\* ------------------------------------------------------------ task ids in full
\*
\* The server with its task ids as the strings task/create builds, from the
\* counter and the clock, on one socket.

MaxTicks == 1

Digit(d) == <<"0", "1", "2", "3", "4", "5", "6", "7", "8", "9">>[d + 1]

RECURSIVE Decimal(_)
\* the decimal digits of a number, as a template literal renders it
Decimal(n) == IF n < 10 THEN <<Digit(n)>> ELSE Append(Decimal(n \div 10), Digit(n % 10))

\* (mutant) an id built from the clock alone
IdOfClockOnly(counter, time) == <<"t", "a", "s", "k", "_">> \o Decimal(time)

\* `task_${++this.taskCounter}_${Date.now()}`
IdString(counter, time) ==
    <<"t", "a", "s", "k", "_">> \o Decimal(counter) \o <<"_">> \o Decimal(time)

\* handleMessage + handleTask, case 'task/create', the id in full
TaskCreateAt(c, rid, params) ==
    /\ UNCHANGED <<clientVars, framerVars, routerVars, lifecycleVars, bufferVars, toolVars, contributionVars>>
    /\ sockets[c] = "open"
    /\ taskCounter < MaxTasks
    /\ LET taskId == IdString(taskCounter + 1, now)
       IN /\ taskCounter' = taskCounter + 1
          /\ tasks' = MapSet(tasks, taskId, NewTask(taskId, params.tool, params.arguments))
          /\ immediates' = Append(immediates, taskId)
          /\ written' = WriteTo(c, ResultResponse(rid, [taskId |-> taskId]))
          /\ created' = Append(created, taskId)
    /\ UNCHANGED <<awaiting, currentSketch, sockets, clients, acked, broken, now>>

\* the clock goes on by a millisecond
Tick ==
    /\ UNCHANGED <<serverVars, clientVars, framerVars, routerVars, lifecycleVars, bufferVars, toolVars, contributionVars>>
    /\ now < FirstTick + MaxTicks
    /\ now' = now + 1
    /\ UNCHANGED created

\* an id that is in no table
NoSuchTask == <<"t", "a", "s", "k", "_", "0">>

TaskIdNext ==
    \/ Accept(1)
    \/ Tick
    \/ \E rid \in ReqIds, params \in CreateParams : TaskCreateAt(1, rid, params)
    \/ \E rid \in ReqIds, taskId \in DOMAIN tasks \cup {NoSuchTask} : TaskGet(1, rid, taskId)
    \/ \E rid \in ReqIds, taskId \in DOMAIN tasks \cup {NoSuchTask} : TaskCancel(1, rid, taskId)
    \/ \E taskId \in DOMAIN tasks : RunTask(taskId)
    \/ \E taskId \in DOMAIN tasks : BackendResolve(taskId)
    \/ \E taskId \in DOMAIN tasks : BackendReject(taskId)
    \/ \E sketch \in Sketches : SetCurrentSketch(sketch)

TaskIdSpec == Init /\ [][TaskIdNext]_vars

\* ------------------------------------------------------------ claims: task ids

\* C27: the task ids task/create has returned are pairwise distinct, whatever the
\* clock read when they were built, and they are the keys of the table; no step
\* takes a key out of the table or changes the id, the tool or the arguments of
\* the task under a key.
C27_IdsDistinctTableGrows ==
    [][/\ \A i \in 1..Len(created'), j \in 1..Len(created') :
             i # j => created'[i] # created'[j]
       /\ DOMAIN tasks' = {created'[i] : i \in 1..Len(created')}
       /\ Len(created') = taskCounter'
       /\ \A taskId \in DOMAIN tasks :
             /\ taskId \in DOMAIN tasks'
             /\ tasks'[taskId].id = taskId
             /\ tasks'[taskId].tool = tasks[taskId].tool
             /\ tasks'[taskId].arguments = tasks[taskId].arguments]_vars

\* two tasks were created at the same reading of the clock, and both have been run
C27_Witness ==
    /\ Len(created) = MaxTasks
    /\ created[1] = IdString(1, FirstTick)
    /\ created[MaxTasks] = IdString(MaxTasks, FirstTick)
    /\ immediates = <<>>
    /\ \A taskId \in DOMAIN tasks : tasks[taskId].status \in Terminal

\* ------------------------------------------------------------ the buffers of several connections
\*
\* The sockets the server accepts, each with the `buffer` of its own call of
\* handleClientConnection, and the sockets of the client's connect() calls, which
\* all append to IPCClient.buffer.  The peer of connection k writes only the
\* letter of k and newlines, so that a line tells whose bytes are in it.

MaxLinks == 2
MaxData == 2

LinkNumbers == 1..Len(links)

\* the letter of a connection: a, b, c ...
Letter(k) == 96 + k

\* the chunks a connection delivers: one or two characters
DataOf(k) == UNION {[1..n -> {Letter(k), Ch.nl}] : n \in 1..2}

BufferOnly ==
    UNCHANGED <<serverVars, clientVars, framerVars, routerVars, lifecycleVars, idVars, toolVars, contributionVars>>

\* handleClientConnection: a socket of the server, with `let buffer = ''`
ServerAccepts ==
    /\ BufferOnly
    /\ Len(links) < MaxLinks
    /\ links' = Append(links, [side |-> "server", state |-> "open", buffer |-> <<>>])
    /\ UNCHANGED <<ipcBuffer, heard>>

\* IPCClient.connect(), the socket of the connection before closed: a new socket
\* and its callbacks; this.buffer is not assigned
ClientConnects ==
    /\ BufferOnly
    /\ Len(links) < MaxLinks
    /\ \A k \in LinkNumbers : links[k].side = "client" => links[k].state = "closed"
    /\ links' = Append(links, [side |-> "client", state |-> "open", buffer |-> <<>>])
    /\ UNCHANGED <<ipcBuffer, heard>>

\* the 'close' of a socket, on either side
LinkCloses(k) ==
    /\ BufferOnly
    /\ k \in LinkNumbers
    /\ links[k].state = "open"
    /\ links' = [links EXCEPT ![k].state = "closed"]
    /\ UNCHANGED <<ipcBuffer, heard>>

\* the lines of a data callback that are handed on: the empty ones are skipped
HeardOn(k, lines) ==
    LET inked(line) == line # <<>>
        kept == SelectSeq(lines, inked)
    IN [i \in 1..Len(kept) |-> [link |-> k, line |-> kept[i]]]

\* the 'data' callback of connection k: buffer += data.toString(); lines =
\* buffer.split('\n'); buffer = lines.pop() || ''  -- on the server with the
\* buffer of the socket, on the client with this.buffer
LinkData(k, data) ==
    /\ BufferOnly
    /\ k \in LinkNumbers
    /\ links[k].state = "open"
    /\ Len(heard) < MaxData
    /\ Len(ipcBuffer) < MaxData /\ Len(links[k].buffer) < MaxData
    /\ LET before == IF links[k].side = "server" THEN links[k].buffer ELSE ipcBuffer
           lines == Split(before \o data)
       IN /\ heard' = heard \o HeardOn(k, Front(lines))
          /\ IF links[k].side = "server"
             THEN links' = [links EXCEPT ![k].buffer = Last(lines)] /\ UNCHANGED ipcBuffer
             ELSE ipcBuffer' = Last(lines) /\ UNCHANGED links

BufferNext ==
    \/ ServerAccepts
    \/ ClientConnects
    \/ \E k \in 1..MaxLinks : LinkCloses(k)
    \/ \E k \in 1..MaxLinks : \E data \in DataOf(k) : LinkData(k, data)

BufferSpec == Init /\ [][BufferNext]_vars

\* ------------------------------------------------------------ claims: buffers

\* the characters of a string are newlines and the letter of connection k
OnlyOf(k, string) == \A i \in 1..Len(string) : string[i] = Letter(k)

\* C29: no fragment goes from one connection to another: every line handed on
\* holds only bytes of the connection whose data completed it, the buffer of a
\* socket of the server holds only bytes of that socket, and the client's buffer
\* holds only bytes of one connection, the one that is open if one is.
C29_NoBleedAcrossConnections ==
    /\ \A i \in 1..Len(heard) : OnlyOf(heard[i].link, heard[i].line)
    /\ \A k \in LinkNumbers : links[k].side = "server" => OnlyOf(k, links[k].buffer)
    /\ \A k \in LinkNumbers :
          (links[k].side = "client" /\ links[k].state = "open") => OnlyOf(k, ipcBuffer)

\* ------------------------------------------------------------ the tool actions

\* the tool calls kept in the history
MaxToolCalls == 2

\* the tools that take an `action`
ActionTools == {"arduino_sketch", "arduino_board", "arduino_serial", "arduino_library"}

\* the Tool Reference: the actions it lists in the table of each tool
DocumentedActions(tool) ==
    CASE tool = "arduino_sketch" ->
            {"create", "open", "save", "list", "get_current", "get_content",
             "set_content", "get_files", "list_examples", "from_example"}
      [] tool = "arduino_board" ->
            {"list_connected", "list_available", "get_selected", "get_info",
             "select", "search", "install_core"}
      [] tool = "arduino_serial" ->
            {"list_ports", "connect", "disconnect", "read", "write"}
      [] tool = "arduino_library" ->
            {"search", "install", "remove", "list", "get_info", "get_examples"}

\* the values of args.action tried: every documented action of every tool, the
\* three more that the switch of arduino_serial knows, and one that no switch knows
Actions ==
    UNION {DocumentedActions(tool) : tool \in ActionTools}
        \cup {"clear", "get_config", "set_config", "bogus"}

\* no request: the switch of the tool ended in its default
NoMethod == <<>>

\* executeArduinoTool, `case 'arduino_sketch'`: the method requested for the action
SketchMethod(action) ==
    CASE action = "get_current" -> <<"sketch", "getCurrent">>
      [] action = "get_content" -> <<"sketch", "getContent">>
      [] action = "set_content" -> <<"sketch", "setContent">>
      [] action = "list" -> <<"sketch", "list">>
      [] action = "create" -> <<"sketch", "create">>
      [] action = "open" -> <<"sketch", "open">>
      [] action = "save" -> <<"sketch", "save">>
      [] action = "get_files" -> <<"sketch", "getFiles">>
      [] action = "list_examples" -> <<"sketch", "listExamples">>
      [] action = "from_example" -> <<"sketch", "fromExample">>
      [] OTHER -> NoMethod

\* executeArduinoTool, `case 'arduino_board'`
BoardMethod(action) ==
    CASE action = "list_connected" -> <<"board", "listConnected">>
      [] action = "list_available" -> <<"board", "listAvailable">>
      [] action = "get_selected" -> <<"board", "getSelected">>
      [] action = "get_info" -> <<"board", "getInfo">>
      [] action = "select" -> <<"board", "select">>
      [] action = "search" -> <<"board", "search">>
      [] action = "install_core" -> <<"board", "installCore">>
      [] OTHER -> NoMethod

\* executeArduinoTool, `case 'arduino_serial'`
SerialMethod(action) ==
    CASE action = "connect" -> <<"serial", "connect">>
      [] action = "disconnect" -> <<"serial", "disconnect">>
      [] action = "read" -> <<"serial", "read">>
      [] action = "write" -> <<"serial", "write">>
      [] action = "clear" -> <<"serial", "clear">>
      [] action = "get_config" -> <<"serial", "getConfig">>
      [] action = "set_config" -> <<"serial", "setConfig">>
      [] action = "list_ports" -> <<"serial", "listPorts">>
      [] OTHER -> NoMethod

\* executeArduinoTool, `case 'arduino_library'`
LibraryMethod(action) ==
    CASE action = "search" -> <<"library", "search">>
      [] action = "install" -> <<"library", "install">>
      [] action = "remove" -> <<"library", "remove">>
      [] action = "list" -> <<"library", "list">>
      [] action = "get_info" -> <<"library", "getInfo">>
      [] action = "get_examples" -> <<"library", "getExamples">>
      [] OTHER -> NoMethod

\* executeArduinoTool: the switch on toolName, for the tools that take an action
ActionMethod(tool, action) ==
    CASE tool = "arduino_sketch" -> SketchMethod(action)
      [] tool = "arduino_board" -> BoardMethod(action)
      [] tool = "arduino_serial" -> SerialMethod(action)
      [] tool = "arduino_library" -> LibraryMethod(action)

\* the prefixes routeRequest dispatches on
Prefixes == {"context", "roots", "task", "sketch", "build", "board", "serial", "library"}

\* the case labels of the handler of a prefix: the text after the '/'
CaseLabels(prefix) ==
    CASE prefix = "context" -> {"getState"}
      [] prefix = "roots" -> {"list"}
      [] prefix = "task" -> {"create", "get", "cancel"}
      [] prefix = "sketch" ->
            {"getCurrent", "getContent", "setContent", "list", "create", "open",
             "getFiles", "save", "listExamples", "fromExample"}
      [] prefix = "build" -> {"compile", "upload", "getOutput", "getErrors"}
      [] prefix = "board" ->
            {"listConnected", "listAvailable", "getSelected", "getInfo", "select",
             "search", "installCore"}
      [] prefix = "serial" -> {"listPorts", "connect", "disconnect", "read", "write"}
      [] prefix = "library" -> {"list", "search", "install", "remove", "getInfo"}

\* routeRequest and the handler it picks, as far as the choice of a case goes:
\* "case" when a case label of the handler is reached, else the error thrown
\* before one is
RouteOf(method, service) ==
    IF method[1] \notin Prefixes THEN "Unknown IPC method"
    ELSE IF method[1] = "library" /\ ~service THEN "LibraryService not available"
    ELSE IF method[2] \in CaseLabels(method[1]) THEN "case"
    ELSE "Unknown " \o method[1] \o " method"

ToolOnly ==
    UNCHANGED <<serverVars, clientVars, framerVars, routerVars, lifecycleVars, idVars,
                bufferVars, contributionVars>>

\* how a tool call ended
ToolEntry(tool, action, method, answer) ==
    [tool |-> tool, action |-> action, method |-> method, answer |-> answer]

\* executeArduinoTool(ipcClient, true, tool, { action }): the request of the method
\* is sent, or the default of the switch throws
ToolCall(tool, action) ==
    /\ ToolOnly
    /\ asked = NoCall
    /\ Len(toolLog) < MaxToolCalls
    /\ LET method == ActionMethod(tool, action)
       IN IF method = NoMethod
          THEN /\ toolLog' = Append(toolLog, ToolEntry(tool, action, NoMethod, "Unknown action"))
               /\ UNCHANGED asked
          ELSE /\ asked' = [tool |-> tool, action |-> action, method |-> method]
               /\ UNCHANGED toolLog

\* the server routes the request and answers it; the LibraryService is injected or not
ToolRouted(service) ==
    /\ ToolOnly
    /\ asked # NoCall
    /\ toolLog' = Append(toolLog, ToolEntry(asked.tool, asked.action, asked.method,
                                            RouteOf(asked.method, service)))
    /\ asked' = NoCall

ToolNext ==
    \/ \E tool \in ActionTools : \E action \in Actions : ToolCall(tool, action)
    \/ \E service \in BOOLEAN : ToolRouted(service)

ToolSpec == Init /\ [][ToolNext]_vars

\* ------------------------------------------------------------ claims: tool actions

\* the errors of a method that no case knows
UnknownMethodAnswers ==
    {"Unknown IPC method"} \cup {"Unknown " \o prefix \o " method" : prefix \in Prefixes}

\* C30: every tool call with an action that the Tool Reference lists for its tool
\* has sent a request, and the server has not answered it with an 'Unknown ...
\* method' error: with the services it needs, the handler has reached a case.
C30_DocumentedActionsAreRouted ==
    \A i \in 1..Len(toolLog) :
        toolLog[i].action \in DocumentedActions(toolLog[i].tool)
            => /\ toolLog[i].method # NoMethod
               /\ toolLog[i].answer \notin UnknownMethodAnswers
               /\ toolLog[i].answer \in {"case", "LibraryService not available"}

\* ------------------------------------------------------------ the roots

\* the Sketch objects the IDE passes to setCurrentSketch
RootSketches == Sketches \cup {Reloaded, "file:///other"}

\* sketch.name: the last segment of the uri
NameOf(sketch) == IF UriOf(sketch) = "file:///sketch" THEN "sketch" ELSE "other"

\* handleRoots, 'roots/list': one root for the current sketch, or none
RootsOf(sketch) ==
    IF sketch = "null" THEN <<>>
    ELSE <<[uri |-> UriOf(sketch), name |-> NameOf(sketch), isReadOnly |-> FALSE]>>

\* the methods asked of handleRoots
RootsMethods == {"roots/list", "roots/read"}

\* handleMessage + handleRoots: 'roots/list' is answered with the roots, any
\* other method with the error thrown
RootsRequest(c, rid, method) ==
    /\ ServerOnly
    /\ sockets[c] = "open"
    /\ written' = WriteTo(c, IF method = "roots/list"
                             THEN ResultResponse(rid, RootsOf(currentSketch))
                             ELSE ErrorResponse(rid, "Unknown roots method"))
    /\ UNCHANGED <<tasks, taskCounter, immediates, awaiting, currentSketch,
                   sockets, clients, acked, broken>>

\* requests arrive only on the sockets whose peer is there
RootsNext ==
    \/ \E c \in Conns : Accept(c)
    \/ \E c \in Conns : SocketClose(c)
    \/ \E c \in Conns : PipeBreaks(c)
    \/ \E sketch \in RootSketches : SetCurrentSketch(sketch)
    \/ \E c \in Conns \ broken, rid \in ReqIds, method \in RootsMethods :
          RootsRequest(c, rid, method)

RootsSpec == Init /\ [][RootsNext]_vars

\* ------------------------------------------------------------ claims: roots

\* two values of `Sketch | null` have the same uri, or are both null
SameUri(old, new) ==
    \/ old = new
    \/ {old, new} = {"file:///sketch", Reloaded}

\* C39: setCurrentSketch makes its argument the current sketch, null included;
\* it writes one roots/changed event to every socket of the broadcast set whose
\* peer is there when the uri of the new sketch is not the uri of the old one
\* (null has none), and writes nothing otherwise; roots/list answers with the one
\* root of the current sketch, its uri and name, or with the empty list when
\* there is no sketch.
C39_RootsFollowCurrentSketch ==
    [][/\ \A sketch \in RootSketches :
             SetCurrentSketch(sketch)
             => /\ currentSketch' = sketch
                /\ \A c \in Conns :
                      written'[c] = IF c \in clients \ broken /\ ~SameUri(currentSketch, sketch)
                                    THEN <<RootsChanged>>
                                    ELSE <<>>
       /\ \A c \in Conns, rid \in ReqIds :
             RootsRequest(c, rid, "roots/list")
             => /\ currentSketch' = currentSketch
                /\ written'[c][1].id = rid
                /\ Len(written'[c][1].result) = (IF currentSketch = "null" THEN 0 ELSE 1)
                /\ \A i \in 1..Len(written'[c][1].result) :
                      /\ SameUri(written'[c][1].result[i].uri, currentSketch)
                      /\ written'[c][1].result[i].name = NameOf(currentSketch)]_vars

\* with both sockets in the set, roots/list has answered with the root of the
\* sketch that replaced another object of the same uri
C39_Witness ==
    /\ clients = Conns
    /\ currentSketch = Reloaded
    /\ \E c \in Conns, rid \in ReqIds :
          written = WriteTo(c, ResultResponse(rid,
                       <<[uri |-> "file:///sketch", name |-> "sketch", isReadOnly |-> FALSE]>>))

====
